---- MODULE Spec2Model ----
(***************************************************************************)
(* Model of one game session of yagoggame/gomaster: the Game value is the  *)
(* command queue of a worker goroutine (Game.run) that owns the gamer      *)
(* states, the turn counter, the game-over flag and the field.  Each       *)
(* action below is one public call on the session together with the        *)
(* worker's handling of the command it sends.  What a call replies is an   *)
(* operator of the state the worker handles it in.                         *)
(***************************************************************************)
EXTENDS Integers, FiniteSets, Bags, TLC

\* ------------------------------------------------------------------------
\* Program constants
NoColour == 0
Black == 1
White == 2

whiteMax == 180
blackMax == 181
minSize == 1
maxSize == 19

\* ------------------------------------------------------------------------
\* Bounds of the model
\* number of WaitBegin/WaitTurn callers that are inside their call at a time
MaxCalls == 2
\* size of the field the session is created with
BoardSize == 2
\* number of sessions made with NewGame for the gamers of the pool
MaxGames == 1

\* gamers that call the session: two players and a stranger
Gamers ==
    { [ID |-> 1, Name |-> "Joe"],
      [ID |-> 2, Name |-> "Nick"],
      [ID |-> 3, Name |-> "Joe"] }

IDs == { g.ID : g \in Gamers }

\* turn data offered to MakeTurn: two points of the field, two points with a
\* coordinate below 1, one beyond the largest field
TurnDatas ==
    { [X |-> 1, Y |-> 1], [X |-> 2, Y |-> 1],
      [X |-> 0, Y |-> 1], [X |-> 1, Y |-> 0], [X |-> maxSize + 1, Y |-> 1] }

VARIABLES
    gamerStates,   \* map id -> GamerState (Colour, Name, beMSGChan, turnMSGChan)
    gameOver,      \* gd.gameOver
    currentTurn,   \* gd.currentTurn
    master,        \* gd.master: the field (size, cells, chipsNumber)
    closed,        \* the Game channel has been closed
    panicked,      \* the worker closed the Game channel twice
    waiting,       \* wait callers selecting on the channel the worker holds for
                   \* them in beMSGChan / turnMSGChan
    blocked,       \* bag of wait callers selecting on a channel the worker
                   \* dropped without reporting on it
    signalled,     \* bag of wait callers whose channel the worker has reported
                   \* on and closed, and who have not yet taken it
    gamers,        \* the pool worker's map id -> Gamer (Name, inGame)
    games,         \* the sessions made by NewGame for the gamers of the pool:
                   \* handle -> state of the session's worker
    poolClosed,    \* the GamersPool channel has been closed
    calls          \* the goroutines that call methods of the pool and of the
                   \* sessions: caller -> where it stands in its method

\* the variables of the one session and of its callers
gameVars == <<gamerStates, gameOver, currentTurn, master, closed, panicked, waiting, blocked, signalled>>

\* the variables of the pool and of the sessions of its gamers
poolVars == <<gamers, games, poolClosed>>

vars == <<gamerStates, gameOver, currentTurn, master, closed, panicked, waiting, blocked, signalled,
          gamers, games, poolClosed, calls>>

\* ------------------------------------------------------------------------
\* field.Field

New(size) ==
    [ size        |-> size,
      field       |-> [y \in 1 .. size |-> [x \in 1 .. size |-> NoColour]],
      chipsNumber |-> [c \in {Black, White} |->
                          IF c = Black THEN blackMax ELSE whiteMax] ]

isGameOver(f) ==
    \E c \in {White, Black} : f.chipsNumber[c] < 1

precheck(f, colour, td) ==
    IF colour # Black /\ colour # White THEN "Colour"
    ELSE IF td.X < 1 \/ td.Y < 1 \/ td.X > f.size \/ td.Y > f.size THEN "Position"
    ELSE IF isGameOver(f) THEN "GameOver"
    ELSE "ok"

checkPosition(f, td) ==
    IF f.field[td.Y][td.X] # NoColour THEN "Occupied" ELSE "ok"

\* error returned by Field.Move ("ok" for nil)
MoveErr(f, colour, td) ==
    IF precheck(f, colour, td) # "ok" THEN precheck(f, colour, td)
    ELSE checkPosition(f, td)

\* Field.Move that does not look whether the position is free
Move_unchecked(f, colour, td) ==
    IF precheck(f, colour, td) # "ok" THEN f
    ELSE [f EXCEPT !.chipsNumber[colour] = @ - 1,
                   !.field[td.Y][td.X] = colour]

\* field after Field.Move
Move(f, colour, td) ==
    IF MoveErr(f, colour, td) # "ok" THEN f
    ELSE [f EXCEPT !.chipsNumber[colour] = @ - 1,
                   !.field[td.Y][td.X] = colour]

\* ------------------------------------------------------------------------
\* helpers of the worker

\* len(gamerStates)
NumGamers(gs) == Cardinality(DOMAIN gs)

\* beMSGChan and turnMSGChan of a GamerState are "nil" or "chan", the reply
\* channel of one WaitBegin / WaitTurn call.  Every such channel has capacity
\* 1.  A caller of a wait call is [act, id]; a caller with the value the worker
\* reported to it is [act, id, val], val being "nil" for a bare close.
Caller(act, id) == [act |-> act, id |-> id]

\* capacity of the reply channel of WaitBegin and of WaitTurn
waitChanCap == 1

\* reportOnChan that leaves the channel in its place after the close
reportOnChan_keeps(ch, val) ==
    IF ch = "nil" THEN [sends |-> 0, closes |-> 0, ch |-> ch]
    ELSE [sends |-> IF val = "nil" THEN 0 ELSE 1, closes |-> 1, ch |-> ch]

\* reportOnChan(&ch, val) on one stored channel: the values it sends, the
\* closes it makes and what it leaves in the place of the channel
reportOnChan(ch, val) ==
    IF ch = "nil" THEN [sends |-> 0, closes |-> 0, ch |-> ch]
    ELSE [sends |-> IF val = "nil" THEN 0 ELSE 1, closes |-> 1, ch |-> "nil"]

\* reportOnChan(&gs.beMSGChan, val) for the gamers ids: the callers that get val
reportOnBeChan(gs, w, ids, val) ==
    { [act |-> "wBegin", id |-> i, val |-> val] :
        i \in { j \in ids : gs[j].beMSGChan = "chan" /\ Caller("wBegin", j) \in w } }

\* reportOnChan(&gs.turnMSGChan, val) for the gamers ids
reportOnTurnChan(gs, w, ids, val) ==
    { [act |-> "wTurn", id |-> i, val |-> val] :
        i \in { j \in ids : gs[j].turnMSGChan = "chan" /\ Caller("wTurn", j) \in w } }

\* the callers left selecting on a channel of gamer id that is overwritten
\* without a report
dropBeChan(gs, w, id) ==
    IF id \in DOMAIN gs /\ gs[id].beMSGChan = "chan" /\ Caller("wBegin", id) \in w
    THEN {Caller("wBegin", id)} ELSE {}

dropTurnChan(gs, w, id) ==
    IF id \in DOMAIN gs /\ gs[id].turnMSGChan = "chan" /\ Caller("wTurn", id) \in w
    THEN {Caller("wTurn", id)} ELSE {}

\* the callers whose channel the worker still holds
held(gs, w) ==
    { c \in w : /\ c.id \in DOMAIN gs
                /\ IF c.act = "wBegin" THEN gs[c.id].beMSGChan = "chan"
                                       ELSE gs[c.id].turnMSGChan = "chan" }

\* getGamerStateAndChecks that does not look at gameOver
getGamerStateAndChecks_noOver(gs, id, over) ==
    IF id \notin DOMAIN gs THEN "UnknownID" ELSE "ok"

getGamerStateAndChecks(gs, id, over) ==
    IF id \notin DOMAIN gs THEN "UnknownID"
    ELSE IF over THEN "GameOver"
    ELSE "ok"

\* isMyTurnCalc with the colours swapped
isMyTurnCalc_swapped(turn, col) ==
    (turn % 2 = 0 /\ col = White) \/ (turn % 2 = 1 /\ col = Black)

isMyTurnCalc(turn, col) ==
    (turn % 2 = 0 /\ col = Black) \/ (turn % 2 = 1 /\ col = White)

\* reportOnTurnChange that tests the turn before the move
reportOnTurnChange_old(gs, turn) ==
    { id \in DOMAIN gs : isMyTurnCalc(turn, gs[id].Colour) }

\* the gamers whose stored turn channel reportOnTurnChange reports on
reportOnTurnChange(gs, turn) ==
    { id \in DOMAIN gs : isMyTurnCalc(turn + 1, gs[id].Colour) }

\* wait callers that are inside their call
Outstanding ==
    Cardinality(waiting) + BagCardinality(blocked) + BagCardinality(signalled)

\* ------------------------------------------------------------------------
\* join

\* join that refuses only when more than two gamers are present
joinErr_full(gs, over) ==
    IF NumGamers(gs) > 2 THEN "NoPlace"
    ELSE IF over THEN "GameOver"
    ELSE "ok"

joinErr(gs, over) ==
    IF NumGamers(gs) > 1 THEN "NoPlace"
    ELSE IF over THEN "GameOver"
    ELSE "ok"

\* join that draws the colour of every gamer at random
joinColour_random(gs, rnd) == rnd

\* the colour join gives: random for the first gamer, the other colour than
\* the present gamer's for the next
joinColour(gs, rnd) ==
    IF DOMAIN gs = {} THEN rnd
    ELSE 3 - gs[CHOOSE id \in DOMAIN gs : TRUE].Colour

\* gamerStates after join
join(gs, gamer, over, rnd) ==
    IF joinErr(gs, over) # "ok" THEN gs
    ELSE [id \in DOMAIN gs \cup {gamer.ID} |->
            IF id = gamer.ID
            THEN [Colour |-> joinColour(gs, rnd), Name |-> gamer.Name,
                  beMSGChan |-> "nil", turnMSGChan |-> "nil"]
            ELSE gs[id]]

Join(gamer) ==
    /\ ~closed
    /\ \E rnd \in {Black, White} :
          gamerStates' = join(gamerStates, gamer, gameOver, rnd)
    /\ blocked' = blocked (+) SetToBag(waiting \ held(gamerStates', waiting))
    /\ waiting' = held(gamerStates', waiting)
    /\ UNCHANGED <<gameOver, currentTurn, master, closed, panicked, signalled>>

\* ------------------------------------------------------------------------
\* reads: the worker replies and changes nothing

\* reply of gamerState, fieldSize and gameState: an error, or "ok" with the
\* copy of the gamer's state, the size of the field, the state of the field
gamerState(gs, id) == IF id \in DOMAIN gs THEN "ok" ELSE "UnknownID"

GamerState(id) ==
    /\ ~closed
    /\ UNCHANGED gameVars

FieldSize(id) ==
    /\ ~closed
    /\ UNCHANGED gameVars

GameState(id) ==
    /\ ~closed
    /\ UNCHANGED gameVars

\* isGameBegun that answers true as soon as a gamer is present
isGameBegun_any(gs, id, over) ==
    IF getGamerStateAndChecks(gs, id, over) # "ok"
    THEN getGamerStateAndChecks(gs, id, over)
    ELSE IF NumGamers(gs) >= 1 THEN "true" ELSE "false"

\* reply of isGameBegun: an error, or the boolean as "true"/"false"
isGameBegun(gs, id, over) ==
    IF getGamerStateAndChecks(gs, id, over) # "ok"
    THEN getGamerStateAndChecks(gs, id, over)
    ELSE IF NumGamers(gs) = 2 THEN "true" ELSE "false"

IsGameBegun(id) ==
    /\ ~closed
    /\ UNCHANGED gameVars

\* reply of isMyTurn: an error, or the boolean as "true"/"false"
isMyTurn(gs, id, over, turn) ==
    IF getGamerStateAndChecks(gs, id, over) # "ok"
    THEN getGamerStateAndChecks(gs, id, over)
    ELSE IF isMyTurnCalc(turn, gs[id].Colour) THEN "true" ELSE "false"

IsMyTurn(id) ==
    /\ ~closed
    /\ UNCHANGED gameVars

\* ------------------------------------------------------------------------
\* waits

\* waitBegin that reports only with more than two gamers
enoughToBegin_more(gs) == NumGamers(gs) > 2

\* waitBegin that reports as soon as one gamer is present
enoughToBegin_one(gs) == NumGamers(gs) >= 1

\* the number of gamers waitBegin reports the begin of the game at
enoughToBegin(gs) == NumGamers(gs) = 2

\* waitBegin: rez is what the worker does with the caller's channel before
\* the handler returns (an error sent, "ok" a bare close, "wait" stored),
\* sig the other callers it reports to, drop the callers whose channel it
\* overwrites
waitBegin(gs, w, id, over) ==
    IF getGamerStateAndChecks(gs, id, over) # "ok"
    THEN [rez |-> getGamerStateAndChecks(gs, id, over), gs |-> gs, sig |-> {}, drop |-> {}]
    ELSE IF enoughToBegin(gs)
    THEN [rez |-> "ok",
          gs |-> [i \in DOMAIN gs |->
                    [gs[i] EXCEPT !.beMSGChan =
                        IF i = id THEN reportOnChan("chan", "nil").ch
                        ELSE reportOnChan(@, "nil").ch]],
          sig |-> reportOnBeChan(gs, w, DOMAIN gs \ {id}, "nil"),
          drop |-> dropBeChan(gs, w, id)]
    ELSE [rez |-> "wait",
          gs |-> [gs EXCEPT ![id].beMSGChan = "chan"],
          sig |-> {},
          drop |-> dropBeChan(gs, w, id)]

\* The caller of a wait call whose channel the handler has reported on takes
\* the reported value, or returns ErrCancellation when ctx is done as well;
\* both without a further step of the worker.
WaitBegin(id) ==
    /\ ~closed
    /\ Outstanding < MaxCalls
    /\ LET r == waitBegin(gamerStates, waiting, id, gameOver)
       IN  /\ gamerStates' = r.gs
           /\ signalled' = signalled (+) SetToBag(r.sig)
           /\ blocked' = blocked (+) SetToBag(r.drop)
           /\ waiting' = held(r.gs, waiting \cup
                                    (IF r.rez = "wait" THEN {Caller("wBegin", id)} ELSE {}))
    /\ UNCHANGED <<gameOver, currentTurn, master, closed, panicked>>

\* waitTurn that closes the channel at once when it is not the caller's turn
waitTurn_negated(gs, w, id, over, turn) ==
    IF getGamerStateAndChecks(gs, id, over) # "ok"
    THEN [rez |-> getGamerStateAndChecks(gs, id, over), gs |-> gs, drop |-> {}]
    ELSE IF ~isMyTurnCalc(turn, gs[id].Colour)
    THEN [rez |-> "ok", gs |-> gs, drop |-> {}]
    ELSE [rez |-> "wait",
          gs |-> [gs EXCEPT ![id].turnMSGChan = "chan"],
          drop |-> dropTurnChan(gs, w, id)]

waitTurn(gs, w, id, over, turn) ==
    IF getGamerStateAndChecks(gs, id, over) # "ok"
    THEN [rez |-> getGamerStateAndChecks(gs, id, over), gs |-> gs, drop |-> {}]
    ELSE IF isMyTurnCalc(turn, gs[id].Colour)
    THEN [rez |-> "ok", gs |-> gs, drop |-> {}]
    ELSE [rez |-> "wait",
          gs |-> [gs EXCEPT ![id].turnMSGChan = "chan"],
          drop |-> dropTurnChan(gs, w, id)]

WaitTurn(id) ==
    /\ ~closed
    /\ Outstanding < MaxCalls
    /\ LET r == waitTurn(gamerStates, waiting, id, gameOver, currentTurn)
       IN  /\ gamerStates' = r.gs
           /\ blocked' = blocked (+) SetToBag(r.drop)
           /\ waiting' = IF r.rez = "wait" THEN waiting \cup {Caller("wTurn", id)}
                         ELSE waiting
    /\ UNCHANGED <<gameOver, currentTurn, master, closed, panicked, signalled>>

\* the results the select of WaitBegin / WaitTurn can return: val is what the
\* reply channel c holds ("none" while the worker has not reported on it,
\* "nil" for a bare close, else the error), done tells that ctx is done; with
\* both cases ready either is taken, with none the caller stays in the select
selectRez(val, done) ==
    (IF val = "none" THEN {} ELSE {IF val = "nil" THEN "ok" ELSE val})
    \cup (IF done THEN {"Cancellation"} ELSE {})

\* the select of a waiting caller takes the reply channel: a buffered value
\* is the error, a closed empty channel is success
Return(s) ==
    /\ BagIn(s, signalled)
    /\ signalled' = signalled (-) SetToBag({s})
    /\ UNCHANGED <<gamerStates, gameOver, currentTurn, master, closed, panicked, waiting, blocked>>

\* the select of a waiting caller takes ctx.Done(): the caller returns
\* ErrCancellation and sends nothing to the worker
CancelSignalled(s) ==
    /\ BagIn(s, signalled)
    /\ signalled' = signalled (-) SetToBag({s})
    /\ UNCHANGED <<gamerStates, gameOver, currentTurn, master, closed, panicked, waiting, blocked>>

CancelBlocked(b) ==
    /\ BagIn(b, blocked)
    /\ blocked' = blocked (-) SetToBag({b})
    /\ UNCHANGED <<gamerStates, gameOver, currentTurn, master, closed, panicked, waiting, signalled>>

\* a cancellation that has the worker forget the caller's channel
CancelWaiting_tellsWorker(c) ==
    /\ c \in waiting
    /\ waiting' = waiting \ {c}
    /\ gamerStates' = [gamerStates EXCEPT ![c.id].beMSGChan = "nil",
                                          ![c.id].turnMSGChan = "nil"]
    /\ UNCHANGED <<gameOver, currentTurn, master, closed, panicked, blocked, signalled>>

CancelWaiting(c) ==
    /\ c \in waiting
    /\ waiting' = waiting \ {c}
    /\ UNCHANGED <<gamerStates, gameOver, currentTurn, master, closed, panicked, blocked, signalled>>

\* ------------------------------------------------------------------------
\* makeTurn

\* makeTurn that offers the move to the field before it tests the turn
makeTurnErr_moveFirst(gs, id, td, over, turn, f) ==
    IF getGamerStateAndChecks(gs, id, over) # "ok"
    THEN getGamerStateAndChecks(gs, id, over)
    ELSE IF MoveErr(f, gs[id].Colour, td) # "ok" THEN "WrongTurn"
    ELSE IF ~isMyTurnCalc(turn, gs[id].Colour) THEN "NotYourTurn"
    ELSE "ok"

\* makeTurn that takes a move of a gamer whatever the turn
makeTurnErr_anyTurn(gs, id, td, over, turn, f) ==
    IF getGamerStateAndChecks(gs, id, over) # "ok"
    THEN getGamerStateAndChecks(gs, id, over)
    ELSE IF MoveErr(f, gs[id].Colour, td) # "ok" THEN "WrongTurn"
    ELSE "ok"

\* reply of makeTurn: the first check that fails, "ok" for a bare close
makeTurnErr(gs, id, td, over, turn, f) ==
    IF getGamerStateAndChecks(gs, id, over) # "ok"
    THEN getGamerStateAndChecks(gs, id, over)
    ELSE IF ~isMyTurnCalc(turn, gs[id].Colour) THEN "NotYourTurn"
    ELSE IF MoveErr(f, gs[id].Colour, td) # "ok" THEN "WrongTurn"
    ELSE "ok"

\* makeTurn that returns 1 whatever the outcome
makeTurnRet_always(err) == 1

\* the value makeTurn returns to the worker's loop
makeTurnRet(err) == IF err = "ok" THEN 1 ELSE 0

\* makeTurn that is handed the turn index with the move counted already
turnAtReport_incremented(turn, err) == turn + makeTurnRet(err)

\* gd.currentTurn at the time makeTurn calls reportOnTurnChange: the loop
\* of the worker adds the result of makeTurn after makeTurn has returned
turnAtReport(turn, err) == turn

makeTurn(gs, w, id, td, over, turn, f) ==
    IF makeTurnErr(gs, id, td, over, turn, f) # "ok"
    THEN [gs |-> gs, sig |-> {}, master |-> f]
    ELSE [gs |-> [i \in DOMAIN gs |->
                    IF i \in reportOnTurnChange(gs, turnAtReport(turn, "ok"))
                    THEN [gs[i] EXCEPT !.turnMSGChan = reportOnChan(@, "nil").ch]
                    ELSE gs[i]],
          sig |-> reportOnTurnChan(gs, w,
                     reportOnTurnChange(gs, turnAtReport(turn, "ok")), "nil"),
          master |-> Move(f, gs[id].Colour, td)]

MakeTurn(id, td) ==
    /\ ~closed
    /\ LET err == makeTurnErr(gamerStates, id, td, gameOver, currentTurn, master)
           r == makeTurn(gamerStates, waiting, id, td, gameOver, currentTurn, master)
       IN  /\ gamerStates' = r.gs
           /\ signalled' = signalled (+) SetToBag(r.sig)
           /\ waiting' = held(r.gs, waiting)
           /\ master' = r.master
           /\ currentTurn' = currentTurn + makeTurnRet(err)
    /\ UNCHANGED <<gameOver, closed, panicked, blocked>>

\* ------------------------------------------------------------------------
\* leave and end

leaveGameErr(gs, id) == IF id \in DOMAIN gs THEN "ok" ELSE "UnknownID"

\* the value leaveGame returns to the worker's loop
leaveGameRet(gs, id) == id \in DOMAIN gs

leaveGame(gs, w, id) ==
    IF leaveGameErr(gs, id) # "ok"
    THEN [gs |-> gs, sig |-> {}]
    ELSE [gs |-> [i \in DOMAIN gs \ {id} |->
                    [gs[i] EXCEPT
                        !.beMSGChan = reportOnChan(@, "OtherGamerLeft").ch,
                        !.turnMSGChan = reportOnChan(@, "OtherGamerLeft").ch]],
          sig |-> reportOnBeChan(gs, w, DOMAIN gs, "OtherGamerLeft")
                  \cup reportOnTurnChan(gs, w, DOMAIN gs, "OtherGamerLeft")]

\* a worker that never closes its own queue
closeCheck_never(over, gs) == FALSE

\* a worker that closes its queue whenever no gamer is left
closeCheck_empty(over, gs) == NumGamers(gs) = 0

\* the check at the end of an iteration of the worker's loop
closeCheck(over, gs) == over /\ NumGamers(gs) = 0

\* the closes of the Game channel one iteration of the worker's loop runs
\* for the command act, over and gs being gd.gameOver and the gamers after
\* the switch: the close of endCMD and the close of the check
closesOf(act, over, gs) ==
    (IF act = "end" THEN 1 ELSE 0) + (IF closeCheck(over, gs) THEN 1 ELSE 0)

\* the worker after the range over the closed Game channel has ended: the
\* callers it reports ErrGameDestroyed to
finalize(gs, w) ==
    reportOnBeChan(gs, w, DOMAIN gs, "GameDestroyed")
    \cup reportOnTurnChan(gs, w, DOMAIN gs, "GameDestroyed")

\* the worker's goroutine has returned: gamerStates and gd, its local
\* variables, no longer exist
exited(size) ==
    [gamerStates |-> << >>, gameOver |-> FALSE, currentTurn |-> 0, master |-> New(size)]

Leave(id) ==
    /\ ~closed
    /\ LET r == leaveGame(gamerStates, waiting, id)
           over == leaveGameRet(gamerStates, id)
       IN  /\ closed' = closeCheck(over, r.gs)
           /\ signalled' = signalled (+) SetToBag(r.sig)
                           (+) (IF closeCheck(over, r.gs)
                                THEN SetToBag(finalize(r.gs, held(r.gs, waiting)))
                                ELSE EmptyBag)
           /\ waiting' = held(r.gs, waiting)
           /\ IF closeCheck(over, r.gs)
              THEN /\ gamerStates' = exited(master.size).gamerStates
                   /\ gameOver' = exited(master.size).gameOver
                   /\ currentTurn' = exited(master.size).currentTurn
                   /\ master' = exited(master.size).master
              ELSE /\ gamerStates' = r.gs
                   /\ gameOver' = over
                   /\ UNCHANGED <<currentTurn, master>>
    /\ UNCHANGED <<panicked, blocked>>

End ==
    /\ ~closed
    /\ closed' = TRUE
    /\ panicked' = (closesOf("end", gameOver, gamerStates) > 1)
    /\ signalled' = signalled (+) SetToBag(finalize(gamerStates, waiting))
    /\ waiting' = {}
    /\ gamerStates' = exited(master.size).gamerStates
    /\ gameOver' = exited(master.size).gameOver
    /\ currentTurn' = exited(master.size).currentTurn
    /\ master' = exited(master.size).master
    /\ UNCHANGED blocked

\* recoverAsErr: a send on the closed Game channel panics in the caller and
\* the panic is turned into ErrResourceNotAvailable
Acts ==
    {"join", "end", "gamerState", "gameState", "fieldSize", "makeTurn",
     "isGameBegun", "isMyTurn", "leave", "wBegin", "wTurn"}

\* the reply the handler of act computes in the present state: the switch of
\* the worker's loop
replyOf(act, id, td) ==
    CASE act = "join"        -> joinErr(gamerStates, gameOver)
      [] act = "end"         -> "ok"
      [] act = "gamerState"  -> gamerState(gamerStates, id)
      [] act = "gameState"   -> gamerState(gamerStates, id)
      [] act = "fieldSize"   -> gamerState(gamerStates, id)
      [] act = "makeTurn"    -> makeTurnErr(gamerStates, id, td, gameOver, currentTurn, master)
      [] act = "isGameBegun" -> isGameBegun(gamerStates, id, gameOver)
      [] act = "isMyTurn"    -> isMyTurn(gamerStates, id, gameOver, currentTurn)
      [] act = "leave"       -> leaveGameErr(gamerStates, id)
      [] act = "wBegin"      -> waitBegin(gamerStates, waiting, id, gameOver).rez
      [] act = "wTurn"       -> waitTurn(gamerStates, waiting, id, gameOver, currentTurn).rez

\* the operations the handler of act performs on cmd.rez before it returns,
\* for the reply out: a wait that is not decided stores the channel; join,
\* end, makeTurn, leave and the waits answer success with a bare close; every
\* error and every value is sent and the channel closed after it
rezOps(act, out) ==
    IF act \in {"wBegin", "wTurn"} /\ out = "wait" THEN << >>
    ELSE IF act \in {"join", "end", "makeTurn", "leave", "wBegin", "wTurn"} /\ out = "ok"
    THEN <<"close">>
    ELSE <<"send", "close">>

\* the panic value of the send g <- cmd of a public method, "nil" for none
sendPanic(cl) == IF cl THEN "send on closed channel" ELSE "nil"

\* the error recoverAsErr leaves in the method's result for the recovered
\* value r; another panic value is raised again
recoverAsErrValue(r) ==
    IF r = "nil" THEN "nil"
    ELSE IF r = "send on closed channel" THEN "ResourceNotAvailable"
    ELSE "panic"

recoverAsErr(act) ==
    /\ closed
    /\ recoverAsErrValue(sendPanic(closed)) = "ResourceNotAvailable"
    /\ UNCHANGED gameVars

\* ------------------------------------------------------------------------
\* GamersPool: the registry of gamers

\* the nil Game of a gamer that is in no game
NoGame == 0

\* the nil *Gamer
NilGamer == [nil |-> TRUE, ID |-> 0, Name |-> "", inGame |-> NoGame]

\* the *Gamer values callers pass to AddGamer: nil, and the gamers of the
\* sessions and one more gamer with the id of another, each in no game or
\* holding one of the sessions made so far (SetGame)
PoolGamers ==
    {NilGamer} \cup
    { [nil |-> FALSE, ID |-> g.ID, Name |-> g.Name, inGame |-> h] :
        g \in Gamers \cup {[ID |-> 3, Name |-> "Sam"]},
        h \in {NoGame} \cup DOMAIN games }

\* the copy of a stored gamer that crosses to the caller
gamerCopy(gm, id) ==
    [nil |-> FALSE, ID |-> gm[id].ID, Name |-> gm[id].Name, inGame |-> gm[id].inGame]

\* the Gamer objects: each is known by the place that allocates it. The
\* objects callers make with game.New and pass to AddGamer
callerAddr == "game.New"

\* addGamer that stores the caller's pointer
storedAddr_alias == callerAddr

\* the object addGamer stores in the map: its own copy gCpy
storedAddr == "addGamer.gCpy"

\* the objects rmGamer, listGamers and getGamer hand out: a copy gCpy of
\* the stored object, made for the reply
rmGamerAddr(gm, id) == "rmGamer.gCpy"
listGamersAddr(gm, id) == "listGamers.gCpy"
getGamerAddr(gm, id) == "getGamer.gCpy"

\* the objects callers hold a pointer to: those they passed to AddGamer and
\* those the pool can hand out
callerHeld(gm) ==
    {callerAddr} \cup
    UNION { {rmGamerAddr(gm, id), listGamersAddr(gm, id), getGamerAddr(gm, id)} :
              id \in DOMAIN gm }

\* what a caller writes into a Gamer object it holds: the name, the id, or
\* the game with SetGame
Mutations ==
    { [field |-> "Name", Name |-> "Eve"], [field |-> "ID", ID |-> 0],
      [field |-> "inGame", inGame |-> NoGame] } \cup
    { [field |-> "inGame", inGame |-> h] : h \in DOMAIN games }

\* the object o after the write m
mutated(o, m) ==
    IF m.field = "Name" THEN [o EXCEPT !.Name = m.Name]
    ELSE IF m.field = "ID" THEN [o EXCEPT !.ID = m.ID]
    ELSE [o EXCEPT !.inGame = m.inGame]

\* the pool worker's map after a caller wrote m into the object at a: the
\* write is seen through every pointer to that object
mutate(gm, a, m) ==
    [id \in DOMAIN gm |-> IF gm[id].addr = a THEN mutated(gm[id], m) ELSE gm[id]]

\* a caller writes into a Gamer object it holds
Mutate(a, m) ==
    /\ a \in callerHeld(gamers)
    /\ gamers' = mutate(gamers, a, m)
    /\ UNCHANGED <<games, poolClosed>>

\* addGamer that takes every id for free
addGamerErr_free(gm, g) == "ok"

\* reply of addGamer
addGamerErr(gm, g) ==
    IF g.ID \in DOMAIN gm THEN "IDOccupied" ELSE "ok"

\* the map after addGamer: the handler does not return after it has sent
\* ErrIDOccupied, the copy of the gamer is stored in both cases
addGamer(gm, g) ==
    [id \in DOMAIN gm \cup {g.ID} |->
        IF id = g.ID
        THEN [ID |-> g.ID, Name |-> g.Name, inGame |-> g.inGame, addr |-> storedAddr]
        ELSE gm[id]]

\* result of the method AddGamer: a nil gamer is refused before any send
AddGamerErr(gm, g) ==
    IF g.nil THEN "NilGamer" ELSE addGamerErr(gm, g)

\* the worker's map after the method AddGamer
AddGamerMap(gm, g) ==
    IF g.nil THEN gm ELSE addGamer(gm, g)

AddGamer(g) ==
    /\ g.nil \/ ~poolClosed
    /\ gamers' = AddGamerMap(gamers, g)
    /\ UNCHANGED <<games, poolClosed>>

\* rmGamer that finds every id
rmGamerErr_found(gm, id) == "ok"

\* reply of rmGamer and of RmGamer: the copy of the gamer ("ok"), or nothing,
\* which the method turns into ErrIDNotFound
rmGamerErr(gm, id) == IF id \in DOMAIN gm THEN "ok" ELSE "IDNotFound"

\* the gamer RmGamer returns with a nil error: the copy rmGamer has sent
rmGamerRez(gm, id) == gamerCopy(gm, id)

\* rmGamer that leaves the gamer in the map
rmGamer_keep(gm, id) == gm

\* the map after rmGamer
rmGamer(gm, id) == [i \in DOMAIN gm \ {id} |-> gm[i]]

RmGamer(id) ==
    /\ ~poolClosed
    /\ gamers' = rmGamer(gamers, id)
    /\ UNCHANGED <<games, poolClosed>>

\* reply of listGamers: the copies of all gamers
listGamers(gm) == { gamerCopy(gm, id) : id \in DOMAIN gm }

ListGamers ==
    /\ ~poolClosed
    /\ UNCHANGED poolVars

\* reply of getGamer
getGamerErr(gm, id) == IF id \in DOMAIN gm THEN "ok" ELSE "IDNotFound"

\* the gamer GetGamer returns with a nil error: the copy getGamer has sent
getGamerRez(gm, id) == gamerCopy(gm, id)

GetGamer(id) ==
    /\ ~poolClosed
    /\ UNCHANGED poolVars

\* ------------------------------------------------------------------------
\* the sessions of the pool's gamers: the methods of Game the pool worker and
\* the holders of a handle call, on the state of that session's worker

\* the check of the size in field.New
NewErr(size) ==
    IF size < minSize \/ size > maxSize THEN "FieldSize" ELSE "ok"

\* the worker of a session after NewGame(size, komi)
newGame(size) ==
    [gamerStates |-> << >>, gameOver |-> FALSE, currentTurn |-> 0,
     master |-> New(size), closed |-> FALSE]

\* the worker of a session after its goroutine has returned
endedGame(size) ==
    [gamerStates |-> exited(size).gamerStates,
     gameOver |-> exited(size).gameOver,
     currentTurn |-> exited(size).currentTurn,
     master |-> exited(size).master,
     closed |-> TRUE]

\* Game.Join on the session g
gameJoin(g, gamer, rnd) ==
    IF sendPanic(g.closed) # "nil"
    THEN [err |-> recoverAsErrValue(sendPanic(g.closed)), game |-> g]
    ELSE [err |-> joinErr(g.gamerStates, g.gameOver),
          game |-> [g EXCEPT !.gamerStates = join(g.gamerStates, gamer, g.gameOver, rnd)]]

\* Game.MakeTurn on the session g
gameMakeTurn(g, id, td) ==
    IF sendPanic(g.closed) # "nil"
    THEN [err |-> recoverAsErrValue(sendPanic(g.closed)), game |-> g]
    ELSE LET err == makeTurnErr(g.gamerStates, id, td, g.gameOver, g.currentTurn, g.master)
             r == makeTurn(g.gamerStates, {}, id, td, g.gameOver, g.currentTurn, g.master)
         IN  [err |-> err,
              game |-> [g EXCEPT !.gamerStates = r.gs,
                                 !.master = r.master,
                                 !.currentTurn = @ + makeTurnRet(err)]]

\* Game.Leave on the session g
gameLeave(g, id) ==
    IF sendPanic(g.closed) # "nil"
    THEN [err |-> recoverAsErrValue(sendPanic(g.closed)), game |-> g]
    ELSE LET r == leaveGame(g.gamerStates, {}, id)
             over == leaveGameRet(g.gamerStates, id)
         IN  [err |-> leaveGameErr(g.gamerStates, id),
              game |-> IF closeCheck(over, r.gs) THEN endedGame(g.master.size)
                       ELSE [g EXCEPT !.gamerStates = r.gs, !.gameOver = over]]

\* Game.End on the session g
gameEnd(g) ==
    IF sendPanic(g.closed) # "nil"
    THEN [err |-> recoverAsErrValue(sendPanic(g.closed)), game |-> g]
    ELSE [err |-> "ok", game |-> endedGame(g.master.size)]

\* the sizes callers pass to NewGame
NewGameSizes == {minSize - 1, BoardSize, maxSize + 1}

\* a caller makes a session with NewGame and keeps the handle
NewGame(size) ==
    /\ Cardinality(DOMAIN games) < MaxGames
    /\ games' = IF NewErr(size) # "ok" THEN games
                 ELSE [h \in 1 .. Cardinality(DOMAIN games) + 1 |->
                         IF h \in DOMAIN games THEN games[h] ELSE newGame(size)]
    /\ UNCHANGED <<gamers, poolClosed>>

\* the holder of a handle calls Join, Leave or End on the session
GameJoin(h, gamer) ==
    /\ \E rnd \in {Black, White} :
          games' = [games EXCEPT ![h] = gameJoin(games[h], gamer, rnd).game]
    /\ UNCHANGED <<gamers, poolClosed>>

GameMakeTurn(h, id, td) ==
    /\ games' = [games EXCEPT ![h] = gameMakeTurn(games[h], id, td).game]
    /\ UNCHANGED <<gamers, poolClosed>>

GameLeave(h, id) ==
    /\ games' = [games EXCEPT ![h] = gameLeave(games[h], id).game]
    /\ UNCHANGED <<gamers, poolClosed>>

GameEnd(h) ==
    /\ games' = [games EXCEPT ![h] = gameEnd(games[h]).game]
    /\ UNCHANGED <<gamers, poolClosed>>

\* ------------------------------------------------------------------------
\* GamersPool: joinGame and releaseGame

\* the size in the command JoinGame sends: the field is not set
cmdSize == 0

\* the gamers joinOtherGame offers the caller's gamer to: every other gamer
\* that is in a game
joinCandidates(gm, id) ==
    { o \in DOMAIN gm \ {id} : gm[o].inGame # NoGame }

\* the candidates whose session accepts the join
joinAcceptors(gm, gms, id) ==
    IF id \notin DOMAIN gm THEN {}
    ELSE { o \in joinCandidates(gm, id) :
             gameJoin(gms[gm[o].inGame], gamerCopy(gm, id), Black).err = "ok" }

\* startOwnGame that drops the error of NewGame
startOwnGameErr_dropped(gm, id, size) == "ok"

\* reply of startOwnGame: NewGame refuses the size, or the new session
\* refuses the gamer
startOwnGameErr(gm, id, size) ==
    IF NewErr(size) # "ok" THEN "GamerGameStart"
    ELSE IF gameJoin(newGame(size), gamerCopy(gm, id), Black).err # "ok" THEN "GamerGameStart"
    ELSE "ok"

\* joinGame that does not look at the game of the gamer
joinGameErr_noOccupied(gm, gms, id, size) ==
    IF id \notin DOMAIN gm THEN "IDNotFound"
    ELSE IF joinAcceptors(gm, gms, id) # {} THEN "ok"
    ELSE startOwnGameErr(gm, id, size)

\* reply of joinGame
joinGameErr(gm, gms, id, size) ==
    IF id \notin DOMAIN gm THEN "IDNotFound"
    ELSE IF gm[id].inGame # NoGame THEN "GamerOccupied"
    ELSE IF joinAcceptors(gm, gms, id) # {} THEN "ok"
    ELSE startOwnGameErr(gm, id, size)

\* the pool and the sessions after joinGame; o is the first candidate, in the
\* order the map is ranged over, whose session accepts the join
joinGame(gm, gms, id, size, rnd, o) ==
    IF joinGameErr(gm, gms, id, size) \in {"IDNotFound", "GamerOccupied"}
    THEN [gamers |-> gm, games |-> gms]
    ELSE IF joinAcceptors(gm, gms, id) = {} /\ NewErr(size) # "ok"
    THEN [gamers |-> gm, games |-> gms]
    ELSE IF joinAcceptors(gm, gms, id) = {} /\ startOwnGameErr(gm, id, size) # "ok"
    THEN [gamers |-> [gm EXCEPT ![id].inGame = NoGame],
          games |-> [h \in 1 .. Cardinality(DOMAIN gms) + 1 |->
                        IF h \in DOMAIN gms THEN gms[h] ELSE gameEnd(newGame(size)).game]]
    ELSE IF joinAcceptors(gm, gms, id) # {}
    THEN [gamers |-> [gm EXCEPT ![id].inGame = gm[o].inGame],
          games |-> [gms EXCEPT ![gm[o].inGame] =
                        gameJoin(gms[gm[o].inGame], gamerCopy(gm, id), rnd).game]]
    ELSE [gamers |-> [gm EXCEPT ![id].inGame = Cardinality(DOMAIN gms) + 1],
          games |-> [h \in 1 .. Cardinality(DOMAIN gms) + 1 |->
                        IF h \in DOMAIN gms THEN gms[h]
                        ELSE gameJoin(newGame(size), gamerCopy(gm, id), rnd).game]]

JoinGame(id) ==
    /\ ~poolClosed
    /\ \E rnd \in {Black, White}, o \in joinAcceptors(gamers, games, id) \cup {id} :
          /\ o = id <=> joinAcceptors(gamers, games, id) = {}
          /\ gamers' = joinGame(gamers, games, id, cmdSize, rnd, o).gamers
          /\ games' = joinGame(gamers, games, id, cmdSize, rnd, o).games
    /\ UNCHANGED poolClosed

\* reply of releaseGame: the error of Leave is dropped
releaseGameErr(gm, id) == IF id \in DOMAIN gm THEN "ok" ELSE "IDNotFound"

\* releaseGame that clears the gamer's game without leaving it
releaseGame_noLeave(gm, gms, id) ==
    IF releaseGameErr(gm, id) # "ok" \/ gm[id].inGame = NoGame
    THEN [gamers |-> gm, games |-> gms]
    ELSE [gamers |-> [gm EXCEPT ![id].inGame = NoGame], games |-> gms]

\* the pool and the sessions after releaseGame
releaseGame(gm, gms, id) ==
    IF releaseGameErr(gm, id) # "ok" \/ gm[id].inGame = NoGame
    THEN [gamers |-> gm, games |-> gms]
    ELSE [gamers |-> [gm EXCEPT ![id].inGame = NoGame],
          games |-> [gms EXCEPT ![gm[id].inGame] = gameLeave(gms[gm[id].inGame], id).game]]

ReleaseGame(id) ==
    /\ ~poolClosed
    /\ gamers' = releaseGame(gamers, games, id).gamers
    /\ games' = releaseGame(gamers, games, id).games
    /\ UNCHANGED poolClosed

\* Release that ends the sessions of the gamers of the pool
Release_cascade ==
    /\ ~poolClosed
    /\ poolClosed' = TRUE
    /\ gamers' = << >>
    /\ games' = [h \in DOMAIN games |->
                   IF \E id \in DOMAIN gamers : gamers[id].inGame = h
                   THEN gameEnd(games[h]).game ELSE games[h]]

\* Release: the pool worker closes its channel and returns; its map of
\* gamers is gone with it, the sessions are left as they are
Release ==
    /\ ~poolClosed
    /\ poolClosed' = TRUE
    /\ gamers' = << >>
    /\ UNCHANGED games

PoolActs == {"add", "rem", "rel", "lst", "joinG", "releaseG", "getG"}

\* how a method of the pool ends for its caller when the pool channel is
\* closed (cl) or open: the methods defer no recover, so the panic of the send
\* leaves the method as a panic; with the channel open the worker replies
poolMethodEnd(act, cl) ==
    IF sendPanic(cl) = "nil" THEN "reply" ELSE "panic"

\* a method of the pool called after Release: the send on the closed channel
\* panics in the caller, and no method of the pool recovers
SendOnClosedPool(act) ==
    /\ poolClosed
    /\ sendPanic(poolClosed) = "send on closed channel"
    /\ poolMethodEnd(act, poolClosed) = "panic"
    /\ UNCHANGED poolVars

\* ------------------------------------------------------------------------
\* the goroutines that call the pool and the sessions, step by step: the
\* send of the command, the handler, the receive of the reply

\* the calling goroutines
Callers == {"a", "b"}

\* what a method is called on: the pool, or the session of the handle h
onPool == [kind |-> "pool", h |-> NoGame]

onGame(h) == [kind |-> "game", h |-> h]

\* a goroutine that is in no method
idleCall ==
    [pos |-> "idle", on |-> [kind |-> "none", h |-> NoGame], live |-> FALSE,
     cmd |-> [act |-> "none"], sent |-> FALSE]

\* the channel of t is open
isLive(t) == IF t = onPool THEN ~poolClosed ELSE ~games[t.h].closed

\* the gamers the calling goroutines act for
CallIDs == {1, 2}

\* the commands the methods of the pool send (AddGamer of nil sends none)
PoolCmds ==
    { [act |-> "add", gamer |-> g] :
        g \in { p \in PoolGamers : ~p.nil /\ p.ID \in CallIDs } }
    \cup { [act |-> a, id |-> id] :
             a \in {"rem", "joinG", "releaseG", "getG"}, id \in CallIDs }
    \cup { [act |-> "lst"], [act |-> "rel"] }

\* the commands Join, Leave and End send to a session
GameCmds ==
    { [act |-> "join", gamer |-> g] : g \in { p \in Gamers : p.ID \in CallIDs } }
    \cup { [act |-> "leave", id |-> id] : id \in CallIDs }
    \cup { [act |-> "end"] }

\* an unrecovered panic of a goroutine has ended the program
crashed == \E c \in Callers : calls[c].pos = "panic"

\* the worker of t (the pool or a session) is not at the range
\* over its channel: it runs the handler of a command it has taken, or it
\* stands in the send of a value on an unbuffered reply channel
busy(t) ==
    \E c \in Callers :
        /\ calls[c].on = t
        /\ \/ calls[c].pos = "taken"
           \/ calls[c].pos = "recv" /\ calls[c].sent

\* a goroutine enters a method of the pool or of a session and reaches the
\* send of its command; live tells whether the pool or session was live then
Call(c, t) ==
    /\ ~crashed
    /\ calls[c].pos = "idle"
    /\ calls' = [calls EXCEPT ![c] = [pos |-> "send", on |-> t, live |-> isLive(t),
                                      cmd |-> [act |-> "none"], sent |-> FALSE]]
    /\ UNCHANGED poolVars

\* the sessions the handler of cmd calls Join or Leave on
sessionsOf(cmd) ==
    IF cmd.act = "joinG"
         /\ joinGameErr(gamers, games, cmd.id, cmdSize) \notin {"IDNotFound", "GamerOccupied"}
    THEN { gamers[o].inGame : o \in joinCandidates(gamers, cmd.id) }
    ELSE IF cmd.act = "releaseG" /\ cmd.id \in DOMAIN gamers
              /\ gamers[cmd.id].inGame # NoGame
    THEN { gamers[cmd.id].inGame }
    ELSE {}

\* the handler of cmd sends a value on the reply channel before it closes it
poolSends(cmd) ==
    CASE cmd.act = "add"      -> addGamerErr(gamers, cmd.gamer) # "ok"
      [] cmd.act = "rem"      -> rmGamerErr(gamers, cmd.id) = "ok"
      [] cmd.act = "lst"      -> TRUE
      [] cmd.act = "getG"     -> TRUE
      [] cmd.act = "joinG"    -> joinGameErr(gamers, games, cmd.id, cmdSize) # "ok"
      [] cmd.act = "releaseG" -> releaseGameErr(gamers, cmd.id) # "ok"
      [] cmd.act = "rel"      -> FALSE

\* the pool worker's send on the channel of session h is taken, or panics
\* and is recovered: the session worker is at its range, or has closed the
\* channel
sessionReady(h) == ~busy(onGame(h))

\* the switch of the pool worker's loop: the handler of cmd
poolHandler(cmd) ==
    \/ cmd.act = "add" /\ AddGamer(cmd.gamer)
    \/ cmd.act = "rem" /\ RmGamer(cmd.id)
    \/ cmd.act = "lst" /\ ListGamers
    \/ cmd.act = "getG" /\ GetGamer(cmd.id)
    \/ cmd.act = "joinG" /\ JoinGame(cmd.id)
    \/ cmd.act = "releaseG" /\ ReleaseGame(cmd.id)
    \/ cmd.act = "rel" /\ Release

\* the pool worker takes the command cmd of c from its channel; a handler
\* that calls no session runs as far as the reply at once, one that calls
\* Join or Leave of a session goes on in PoolHandle
PoolTake(c, cmd) ==
    /\ ~crashed
    /\ calls[c].pos = "send" /\ calls[c].on = onPool
    /\ ~poolClosed
    /\ ~busy(onPool)
    /\ IF sessionsOf(cmd) = {}
       THEN /\ poolHandler(cmd)
            /\ calls' = [calls EXCEPT ![c].pos = "recv", ![c].sent = poolSends(cmd)]
       ELSE /\ calls' = [calls EXCEPT ![c].pos = "taken", ![c].cmd = cmd]
            /\ UNCHANGED poolVars

\* the pool worker goes on with the handler of the command it has taken, the
\* calls of Join and Leave on the sessions, as far as the reply
PoolHandle(c) ==
    /\ ~crashed
    /\ calls[c].pos = "taken" /\ calls[c].on = onPool
    /\ \A h \in sessionsOf(calls[c].cmd) : sessionReady(h)
    /\ poolHandler(calls[c].cmd)
    /\ calls' = [calls EXCEPT ![c].pos = "recv", ![c].cmd = idleCall.cmd,
                              ![c].sent = poolSends(calls[c].cmd)]

\* the send on the closed pool channel panics and the method of the pool
\* has no recover
PoolSendPanics(c) ==
    /\ ~crashed
    /\ calls[c].pos = "send" /\ calls[c].on = onPool
    /\ poolClosed
    /\ calls' = [calls EXCEPT ![c].pos =
                    IF poolMethodEnd(calls[c].cmd.act, poolClosed) = "panic"
                    THEN "panic" ELSE "idle"]
    /\ UNCHANGED poolVars

\* the handler of cmd on the session g sends a value on the reply channel
gameSends(g, cmd) ==
    CASE cmd.act = "join"  -> rezOps("join", joinErr(g.gamerStates, g.gameOver)) # <<"close">>
      [] cmd.act = "leave" -> rezOps("leave", leaveGameErr(g.gamerStates, cmd.id)) # <<"close">>
      [] cmd.act = "end"   -> FALSE

\* the worker of the session calls[c].on takes the command cmd of c and runs
\* its handler as far as the reply
GameServe(c, cmd) ==
    /\ ~crashed
    /\ calls[c].pos = "send" /\ calls[c].on.kind = "game"
    /\ ~games[calls[c].on.h].closed
    /\ ~busy(calls[c].on)
    /\ \/ cmd.act = "join" /\ GameJoin(calls[c].on.h, cmd.gamer)
       \/ cmd.act = "leave" /\ GameLeave(calls[c].on.h, cmd.id)
       \/ cmd.act = "end" /\ GameEnd(calls[c].on.h)
    /\ calls' = [calls EXCEPT ![c].pos = "recv",
                              ![c].sent = gameSends(games[calls[c].on.h], cmd)]

\* the send on the closed Game channel panics; recoverAsErr turns the panic
\* into ErrResourceNotAvailable and the method returns
GameSendPanics(c) ==
    /\ ~crashed
    /\ calls[c].pos = "send" /\ calls[c].on.kind = "game"
    /\ games[calls[c].on.h].closed
    /\ recoverAsErrValue(sendPanic(games[calls[c].on.h].closed)) = "ResourceNotAvailable"
    /\ calls' = [calls EXCEPT ![c] = idleCall]
    /\ UNCHANGED poolVars

\* the caller receives from its reply channel and the method returns
Recv(c) ==
    /\ ~crashed
    /\ calls[c].pos = "recv"
    /\ calls' = [calls EXCEPT ![c] = idleCall]
    /\ UNCHANGED poolVars

\* ------------------------------------------------------------------------
\* NewGame(BoardSize, komi) followed by any calls

Init ==
    /\ gamerStates = << >>
    /\ gameOver = FALSE
    /\ currentTurn = 0
    /\ master = New(BoardSize)
    /\ closed = FALSE
    /\ panicked = FALSE
    /\ waiting = {}
    /\ blocked = EmptyBag
    /\ signalled = EmptyBag
    /\ gamers = << >>
    /\ games = << >>
    /\ poolClosed = FALSE
    /\ calls = [c \in Callers |-> idleCall]

Next ==
    \/ \E g \in Gamers : Join(g) /\ UNCHANGED <<poolVars, calls>>
    \/ \E id \in IDs : GamerState(id) /\ UNCHANGED <<poolVars, calls>>
    \/ \E id \in IDs : FieldSize(id) /\ UNCHANGED <<poolVars, calls>>
    \/ \E id \in IDs : GameState(id) /\ UNCHANGED <<poolVars, calls>>
    \/ \E id \in IDs : IsGameBegun(id) /\ UNCHANGED <<poolVars, calls>>
    \/ \E id \in IDs : IsMyTurn(id) /\ UNCHANGED <<poolVars, calls>>
    \/ \E id \in IDs : WaitBegin(id) /\ UNCHANGED <<poolVars, calls>>
    \/ \E id \in IDs : WaitTurn(id) /\ UNCHANGED <<poolVars, calls>>
    \/ \E s \in BagToSet(signalled) : Return(s) /\ UNCHANGED <<poolVars, calls>>
    \/ \E s \in BagToSet(signalled) : CancelSignalled(s) /\ UNCHANGED <<poolVars, calls>>
    \/ \E b \in BagToSet(blocked) : CancelBlocked(b) /\ UNCHANGED <<poolVars, calls>>
    \/ \E c \in waiting : CancelWaiting(c) /\ UNCHANGED <<poolVars, calls>>
    \/ \E id \in IDs, td \in TurnDatas : MakeTurn(id, td) /\ UNCHANGED <<poolVars, calls>>
    \/ \E id \in IDs : Leave(id) /\ UNCHANGED <<poolVars, calls>>
    \/ End /\ UNCHANGED <<poolVars, calls>>
    \/ \E act \in Acts : recoverAsErr(act) /\ UNCHANGED <<poolVars, calls>>

Spec == Init /\ [][Next]_vars

\* NewGamersPool() followed by any calls on the pool and on the sessions of
\* its gamers
PoolNext ==
    \/ \E g \in PoolGamers : AddGamer(g) /\ UNCHANGED <<gameVars, calls>>
    \/ \E id \in IDs : RmGamer(id) /\ UNCHANGED <<gameVars, calls>>
    \/ ListGamers /\ UNCHANGED <<gameVars, calls>>
    \/ \E id \in IDs : GetGamer(id) /\ UNCHANGED <<gameVars, calls>>
    \/ \E id \in IDs : JoinGame(id) /\ UNCHANGED <<gameVars, calls>>
    \/ \E id \in IDs : ReleaseGame(id) /\ UNCHANGED <<gameVars, calls>>
    \/ Release /\ UNCHANGED <<gameVars, calls>>
    \/ \E a \in callerHeld(gamers), m \in Mutations : Mutate(a, m) /\ UNCHANGED <<gameVars, calls>>
    \/ \E act \in PoolActs : SendOnClosedPool(act) /\ UNCHANGED <<gameVars, calls>>
    \/ \E size \in NewGameSizes : NewGame(size) /\ UNCHANGED <<gameVars, calls>>
    \/ \E h \in DOMAIN games, g \in Gamers : GameJoin(h, g) /\ UNCHANGED <<gameVars, calls>>
    \/ \E h \in DOMAIN games, id \in IDs : GameLeave(h, id) /\ UNCHANGED <<gameVars, calls>>
    \/ \E h \in DOMAIN games : GameEnd(h) /\ UNCHANGED <<gameVars, calls>>

PoolSpec == Init /\ [][PoolNext]_vars

\* the turn data the gamers of the pool's sessions offer: a point of the
\* field and a point outside of it
PoolTurnDatas == { [X |-> 1, Y |-> 1], [X |-> 0, Y |-> 1] }

\* NewGamersPool() followed by the calls that change the pool or a session
\* of its gamers, the moves of the gamers included
PoolGameNext ==
    \/ \E g \in PoolGamers : AddGamer(g) /\ UNCHANGED <<gameVars, calls>>
    \/ \E id \in IDs : JoinGame(id) /\ UNCHANGED <<gameVars, calls>>
    \/ \E id \in IDs : ReleaseGame(id) /\ UNCHANGED <<gameVars, calls>>
    \/ Release /\ UNCHANGED <<gameVars, calls>>
    \/ \E size \in NewGameSizes : NewGame(size) /\ UNCHANGED <<gameVars, calls>>
    \/ \E h \in DOMAIN games, g \in Gamers : GameJoin(h, g) /\ UNCHANGED <<gameVars, calls>>
    \/ \E h \in DOMAIN games, id \in IDs, td \in PoolTurnDatas :
          GameMakeTurn(h, id, td) /\ UNCHANGED <<gameVars, calls>>
    \/ \E h \in DOMAIN games, id \in IDs : GameLeave(h, id) /\ UNCHANGED <<gameVars, calls>>
    \/ \E h \in DOMAIN games : GameEnd(h) /\ UNCHANGED <<gameVars, calls>>

PoolGameSpec == Init /\ [][PoolGameNext]_vars

\* NewGamersPool() and NewGame followed by the calls of concurrent
\* goroutines on the pool and on the sessions
CallNext ==
    \/ \E size \in NewGameSizes : ~crashed /\ NewGame(size) /\ UNCHANGED <<gameVars, calls>>
    \/ \E c \in Callers, t \in {onPool} \cup { onGame(h) : h \in DOMAIN games } :
          Call(c, t) /\ UNCHANGED gameVars
    \/ \E c \in Callers, cmd \in PoolCmds : PoolTake(c, cmd) /\ UNCHANGED gameVars
    \/ \E c \in Callers : PoolHandle(c) /\ UNCHANGED gameVars
    \/ \E c \in Callers : PoolSendPanics(c) /\ UNCHANGED gameVars
    \/ \E c \in Callers, cmd \in GameCmds : GameServe(c, cmd) /\ UNCHANGED gameVars
    \/ \E c \in Callers : GameSendPanics(c) /\ UNCHANGED gameVars
    \/ \E c \in Callers : Recv(c) /\ UNCHANGED gameVars

\* The scheduler runs every goroutine that can run: a caller that can
\* receive its reply or whose send panics does so, and a worker that can go
\* on does so. The goroutines blocked in the send on a channel are served
\* in the order of their arrival, so a command is taken although the worker
\* is busy with others again and again.
CallFairness ==
    /\ \A c \in Callers : WF_vars(Recv(c) /\ UNCHANGED gameVars)
    /\ \A c \in Callers : WF_vars((PoolSendPanics(c) \/ GameSendPanics(c)) /\ UNCHANGED gameVars)
    /\ \A c \in Callers : SF_vars(PoolHandle(c) /\ UNCHANGED gameVars)
    /\ \A c \in Callers : SF_vars((\E cmd \in PoolCmds : PoolTake(c, cmd)) /\ UNCHANGED gameVars)
    /\ \A c \in Callers : SF_vars((\E cmd \in GameCmds : GameServe(c, cmd)) /\ UNCHANGED gameVars)

FairSpec == Init /\ [][CallNext]_vars /\ CallFairness

\* ------------------------------------------------------------------------
\* Properties

\* the colour that moves at a turn: even Black, odd White
ParityMatches(turn, col) == (turn % 2 = 0) <=> (col = Black)

\* in this step the worker reports val to the waiting caller c
ReportedTo(c, val) ==
    CopiesIn([act |-> c.act, id |-> c.id, val |-> val], signalled')
        = CopiesIn([act |-> c.act, id |-> c.id, val |-> val], signalled) + 1

\* C1: once gameOver is true it stays true for as long as the session is not
\* destroyed, whatever is called (a leave with an unknown id included), so
\* join and the calls of a remaining gamer keep failing with ErrGameOver.
C1_OverStaysTrue ==
    [][(gameOver /\ ~closed') => gameOver']_vars

\* C2: a waitBegin that is pending while its caller is the only gamer is
\* reported success by the join of the second gamer itself.
C2_JoinReleasesWaitBegin ==
    [][(/\ \E g \in Gamers : Join(g)
        /\ NumGamers(gamerStates) = 1
        /\ NumGamers(gamerStates') = 2)
       => \A c \in waiting : c.act = "wBegin" => ReportedTo(c, "nil")]_vars

\* C3: a successful leave completes every wait call outstanding at that
\* moment, of the leaver and of the other gamer, superseded calls included,
\* with ErrOtherGamerLeft; none stays blocked.
C3_LeaveCompletesWaits ==
    [][\A id \in IDs :
         (Leave(id) /\ leaveGameErr(gamerStates, id) = "ok")
         => /\ \A c \in waiting : ReportedTo(c, "OtherGamerLeft")
            /\ blocked' = EmptyBag]_vars

\* C4: a second waitBegin (waitTurn) of a gamer whose earlier one is pending
\* closes the earlier channel without a value: the earlier caller is reported
\* success and is not left blocked.
C4_SecondWaitReleasesFirst ==
    [][\A id \in IDs :
         /\ (/\ WaitBegin(id)
             /\ getGamerStateAndChecks(gamerStates, id, gameOver) = "ok"
             /\ Caller("wBegin", id) \in waiting)
            => (ReportedTo(Caller("wBegin", id), "nil") /\ blocked' = blocked)
         /\ (/\ WaitTurn(id)
             /\ waitTurn(gamerStates, waiting, id, gameOver, currentTurn).rez = "wait"
             /\ Caller("wTurn", id) \in waiting)
            => (ReportedTo(Caller("wTurn", id), "nil") /\ blocked' = blocked)]_vars

\* C5: the gamer map never has more than 2 entries; a join that arrives when
\* 2 gamers are present is answered ErrNoPlace and leaves the map unchanged.
C5_AtMostTwoGamers ==
    /\ NumGamers(gamerStates) <= 2
    /\ (~closed /\ NumGamers(gamerStates) = 2)
       => \A g \in Gamers, rnd \in {Black, White} :
             /\ joinErr(gamerStates, gameOver) = "NoPlace"
             /\ join(gamerStates, g, gameOver, rnd) = gamerStates

C5_Witness ==
    /\ ~closed
    /\ NumGamers(gamerStates) = 2
    /\ \E g \in Gamers : g.ID \notin DOMAIN gamerStates

\* C6: currentTurn starts at 0 and, while the session lives, a step either
\* leaves it unchanged or adds exactly 1, the latter only as a makeTurn whose
\* move the field accepted; a makeTurn that fails adds nothing, so after
\* ErrWrongTurn it is still the turn of the same gamer.
C6_TurnIndex ==
    /\ currentTurn = 0
    /\ [][~closed' =>
            \/ currentTurn' = currentTurn
            \/ /\ currentTurn' = currentTurn + 1
               /\ \E id \in IDs, td \in TurnDatas :
                     /\ MakeTurn(id, td)
                     /\ makeTurnErr(gamerStates, id, td, gameOver, currentTurn, master) = "ok"
                     /\ MoveErr(master, gamerStates[id].Colour, td) = "ok"]_vars
    /\ [](~closed =>
            \A id \in IDs, td \in TurnDatas :
               LET err == makeTurnErr(gamerStates, id, td, gameOver, currentTurn, master)
               IN  /\ err # "ok" => currentTurn + makeTurnRet(err) = currentTurn
                   /\ err = "WrongTurn" =>
                         ParityMatches(currentTurn + makeTurnRet(err), gamerStates[id].Colour))

C6_Witness ==
    /\ ~closed
    /\ currentTurn = 1
    /\ \E id \in IDs, td \in TurnDatas :
          makeTurnErr(gamerStates, id, td, gameOver, currentTurn, master) = "WrongTurn"

\* C7: a makeTurn that succeeds reports success to the pending waitTurn of the
\* gamer whose colour moves at the new currentTurn, and leaves the pending
\* waitTurn of a gamer whose colour does not move then as it is.
C7_MoveReleasesNextMover ==
    [][\A id \in IDs, td \in TurnDatas :
         (/\ currentTurn' = currentTurn + 1
          /\ makeTurnErr(gamerStates, id, td, gameOver, currentTurn, master) = "ok"
          /\ MakeTurn(id, td))
         => \A p \in DOMAIN gamerStates :
               IF ParityMatches(currentTurn', gamerStates[p].Colour)
               THEN Caller("wTurn", p) \in waiting
                    => /\ ReportedTo(Caller("wTurn", p), "nil")
                       /\ Caller("wTurn", p) \notin waiting'
               ELSE /\ gamerStates'[p].turnMSGChan = gamerStates[p].turnMSGChan
                    /\ (Caller("wTurn", p) \in waiting <=> Caller("wTurn", p) \in waiting')
                    /\ ~ReportedTo(Caller("wTurn", p), "nil")]_vars

C7_Witness ==
    /\ ~closed
    /\ currentTurn = 1
    /\ \E p \in DOMAIN gamerStates :
          /\ gamerStates[p].Colour = White
          /\ BagIn([act |-> "wTurn", id |-> p, val |-> "nil"], signalled)

\* C8: whenever the worker reports success to a waitBegin call, at once or
\* later through the stored channel, the session has exactly 2 gamers and is
\* not over.
C8_BeginSuccessMeansTwo ==
    /\ [](~closed =>
            \A id \in IDs :
               waitBegin(gamerStates, waiting, id, gameOver).rez = "ok"
               => (NumGamers(gamerStates) = 2 /\ ~gameOver))
    /\ [][(\E p \in IDs : ReportedTo(Caller("wBegin", p), "nil"))
          => (NumGamers(gamerStates') = 2 /\ ~gameOver')]_vars

C8_Witness ==
    /\ ~closed
    /\ \E p \in DOMAIN gamerStates :
          /\ BagIn([act |-> "wBegin", id |-> p, val |-> "nil"], signalled)
          /\ NumGamers(gamerStates) = 2

C10_ExactlyOneOnTurn ==
    /\ []((~closed /\ ~gameOver /\ NumGamers(gamerStates) = 2) =>
            /\ Cardinality({ id \in IDs :
                  isMyTurn(gamerStates, id, gameOver, currentTurn) = "true" }) = 1
            /\ \A id \in DOMAIN gamerStates :
                  isMyTurn(gamerStates, id, gameOver, currentTurn) = "true"
                  <=> ParityMatches(currentTurn, gamerStates[id].Colour))
    /\ [][\A m \in IDs, td \in TurnDatas :
            (/\ currentTurn' = currentTurn + 1
             /\ NumGamers(gamerStates) = 2
             /\ makeTurnErr(gamerStates, m, td, gameOver, currentTurn, master) = "ok"
             /\ MakeTurn(m, td))
            => /\ isMyTurn(gamerStates', m, gameOver', currentTurn') = "false"
               /\ \A o \in DOMAIN gamerStates' \ {m} :
                     isMyTurn(gamerStates', o, gameOver', currentTurn') = "true"]_vars

C10_Witness ==
    /\ ~closed /\ ~gameOver
    /\ NumGamers(gamerStates) = 2
    /\ currentTurn = 1
    /\ \E o \in DOMAIN gamerStates :
          isMyTurn(gamerStates, o, gameOver, currentTurn) = "true"

\* C11: makeTurn reports the first failing check in the order unknown id,
\* game over, not the caller's turn, move refused by the field; a gamer who is
\* not on turn and sends a point outside the field gets ErrNotYourTurn and the
\* field is left as it was.
C11_MakeTurnCheckOrder ==
    ~closed =>
      \A id \in IDs, td \in TurnDatas :
        LET err == makeTurnErr(gamerStates, id, td, gameOver, currentTurn, master)
            after == makeTurn(gamerStates, waiting, id, td, gameOver, currentTurn, master)
        IN  IF id \notin DOMAIN gamerStates THEN err = "UnknownID"
            ELSE IF gameOver THEN err = "GameOver"
            ELSE IF ~ParityMatches(currentTurn, gamerStates[id].Colour)
            THEN err = "NotYourTurn" /\ after.master = master
            ELSE IF MoveErr(master, gamerStates[id].Colour, td) # "ok"
            THEN err = "WrongTurn"
            ELSE err = "ok"

C11_Witness ==
    /\ ~closed /\ ~gameOver
    /\ currentTurn = 1
    /\ \E id \in DOMAIN gamerStates, td \in TurnDatas :
          /\ gamerStates[id].Colour = Black
          /\ MoveErr(master, Black, td) = "Position"
          /\ makeTurnErr(gamerStates, id, td, gameOver, currentTurn, master) = "NotYourTurn"

\* C12: every gamer of the session holds one colour, Black or White and never
\* NoColour, and two gamers present together hold different colours, whatever
\* joins and leaves came before.
C12_ColoursDistinct ==
    /\ \A id \in DOMAIN gamerStates : gamerStates[id].Colour \in {Black, White}
    /\ \A id \in DOMAIN gamerStates : gamerStates[id].Colour # NoColour
    /\ \A p, q \in DOMAIN gamerStates :
          p # q => gamerStates[p].Colour # gamerStates[q].Colour

C12_Witness ==
    /\ ~closed
    /\ DOMAIN gamerStates = {2, 3}
    /\ gamerStates[2].Colour = White
    /\ gamerStates[3].Colour = Black

\* C13: in the state a leave of one of two gamers produces, join of any gamer
\* is answered ErrGameOver; makeTurn, isGameBegun, isMyTurn, waitBegin and
\* waitTurn of the remaining gamer are answered ErrGameOver, the waits at once
\* and without storing a channel; gamerState, fieldSize and gameState of the
\* remaining gamer succeed.
C13_AfterLeaveGameOver ==
    [][\A id \in IDs :
         (/\ NumGamers(gamerStates) = 2
          /\ id \in DOMAIN gamerStates
          /\ Leave(id))
         => /\ ~closed'
            /\ joinErr(gamerStates', gameOver') = "GameOver"
            /\ \A g \in Gamers, rnd \in {Black, White} :
                  join(gamerStates', g, gameOver', rnd) = gamerStates'
            /\ \A r \in DOMAIN gamerStates' :
                  /\ \A td \in TurnDatas :
                        makeTurnErr(gamerStates', r, td, gameOver', currentTurn', master')
                            = "GameOver"
                  /\ isGameBegun(gamerStates', r, gameOver') = "GameOver"
                  /\ isMyTurn(gamerStates', r, gameOver', currentTurn') = "GameOver"
                  /\ waitBegin(gamerStates', waiting', r, gameOver').rez = "GameOver"
                  /\ waitBegin(gamerStates', waiting', r, gameOver').gs = gamerStates'
                  /\ waitTurn(gamerStates', waiting', r, gameOver', currentTurn').rez
                        = "GameOver"
                  /\ waitTurn(gamerStates', waiting', r, gameOver', currentTurn').gs
                        = gamerStates'
                  /\ gamerState(gamerStates', r) = "ok"]_vars

C13_Witness ==
    /\ ~closed
    /\ gameOver
    /\ NumGamers(gamerStates) = 1

\* C14: a successful leave that empties the gamer map closes the Game
\* channel; from then on the channel stays closed, every method called on the
\* handle, End included, returns ErrResourceNotAvailable, nothing of the
\* session changes any more, and the worker never closes the channel twice.
C14_EmptyLeaveDestroys ==
    /\ [][\A id \in IDs :
            (/\ DOMAIN gamerStates = {id}
             /\ Leave(id))
            => closed']_vars
    /\ [][closed => /\ closed'
                    /\ UNCHANGED <<gamerStates, gameOver, currentTurn, master, waiting>>]_vars
    /\ [](closed => \A act \in Acts :
                       recoverAsErrValue(sendPanic(closed)) = "ResourceNotAvailable")
    /\ [](~panicked)

C14_Witness ==
    /\ closed
    /\ ~panicked
    /\ \E id \in IDs :
          BagIn([act |-> "wBegin", id |-> id, val |-> "OtherGamerLeft"], signalled)

\* C15: End on a session whose gamers have pending waitBegin or waitTurn
\* calls completes each of those calls with ErrGameDestroyed; no caller of a
\* wait is left blocked.
C15_EndCompletesWaits ==
    [][(NumGamers(gamerStates) >= 1 /\ End)
       => /\ \A c \in waiting : ReportedTo(c, "GameDestroyed")
          /\ waiting' = {}
          /\ blocked' = EmptyBag]_vars

\* C16: every command the worker takes from the Game channel gets exactly one
\* reply, a value followed by a close or a bare close: the handler of a call
\* that is not a wait replies before it returns, and the caller of a wait
\* whose channel the worker took is never left on a channel the worker has
\* let go of; a caller whose send meets the closed channel gets
\* ErrResourceNotAvailable.
C16_ExactlyOneReply ==
    /\ [](~closed =>
            \A act \in Acts \ {"wBegin", "wTurn"}, id \in IDs, td \in TurnDatas :
               rezOps(act, replyOf(act, id, td)) \in {<<"close">>, <<"send", "close">>})
    /\ [](closed => recoverAsErrValue(sendPanic(closed)) = "ResourceNotAvailable")
    /\ [][\A c \in waiting \cup BagToSet(blocked') :
            CopiesIn(c, blocked') <= CopiesIn(c, blocked)]_vars

\* C17: a waitBegin or waitTurn the worker has not reported on returns
\* ErrCancellation, and nothing else, when its context is done; the
\* cancellation sends nothing to the worker and changes neither the gamers
\* nor currentTurn nor gameOver, and the session stays open for other calls.
C17_CancellationIsCallerSide ==
    /\ selectRez("none", TRUE) = {"Cancellation"}
    /\ selectRez("none", FALSE) = {}
    /\ [][\A c \in waiting :
            CancelWaiting(c)
            => /\ "Cancellation" \in selectRez("none", TRUE)
               /\ UNCHANGED <<gamerStates, gameOver, currentTurn, master, closed, panicked>>
               /\ UNCHANGED <<blocked, signalled>>
               /\ waiting' = waiting \ {c}]_vars
    /\ [][\A b \in BagToSet(blocked) :
            CancelBlocked(b)
            => UNCHANGED <<gamerStates, gameOver, currentTurn, master, closed, panicked>>]_vars

C17_Witness ==
    /\ ~closed
    /\ \E id \in DOMAIN gamerStates :
          /\ gamerStates[id].turnMSGChan = "chan"
          /\ Caller("wTurn", id) \notin waiting
    /\ \E id \in DOMAIN gamerStates, td \in TurnDatas :
          makeTurnErr(gamerStates, id, td, gameOver, currentTurn, master) = "ok"

\* C18: a waitBegin of a gamer of a session that has two gamers and is not
\* over is answered success by its own handler, and its channel is not
\* stored; the handler also reports success to a stored waitBegin of the
\* other gamer, so that with both gamers joined and each calling waitBegin
\* both calls succeed.
C18_BeginWithTwoIsImmediate ==
    /\ []((~closed /\ ~gameOver /\ NumGamers(gamerStates) = 2) =>
            \A id \in DOMAIN gamerStates :
               waitBegin(gamerStates, waiting, id, gameOver).rez = "ok")
    /\ [][\A id \in IDs :
            (/\ ~gameOver
             /\ NumGamers(gamerStates) = 2
             /\ id \in DOMAIN gamerStates
             /\ WaitBegin(id))
            => /\ \A p \in DOMAIN gamerStates' : gamerStates'[p].beMSGChan = "nil"
               /\ \A c \in waiting' : c.act # "wBegin"
               /\ \A p \in DOMAIN gamerStates \ {id} :
                     Caller("wBegin", p) \in waiting
                     => ReportedTo(Caller("wBegin", p), "nil")]_vars

C18_Witness ==
    /\ ~closed /\ ~gameOver
    /\ DOMAIN gamerStates = {1, 2}
    /\ currentTurn = 0
    /\ BagIn([act |-> "wBegin", id |-> 1, val |-> "nil"], signalled)
    /\ waitBegin(gamerStates, waiting, 2, gameOver).rez = "ok"
    /\ \A p \in DOMAIN gamerStates : gamerStates[p].beMSGChan = "nil"

\* C19: isGameBegun of a gamer of a session that is not over answers true
\* exactly when the session has two gamers; for an id that is no gamer of the
\* session it fails with ErrUnknownID, for a gamer of a session that is over
\* with ErrGameOver.
C19_IsGameBegun ==
    ~closed =>
      \A id \in IDs :
        LET r == isGameBegun(gamerStates, id, gameOver)
        IN  IF id \notin DOMAIN gamerStates THEN r = "UnknownID"
            ELSE IF gameOver THEN r = "GameOver"
            ELSE /\ r \in {"true", "false"}
                 /\ r = "true" <=> Cardinality(DOMAIN gamerStates) = 2

C19_Witness ==
    /\ ~closed /\ ~gameOver
    /\ DOMAIN gamerStates = {3}
    /\ isGameBegun(gamerStates, 3, gameOver) = "false"
    /\ isGameBegun(gamerStates, 1, gameOver) = "UnknownID"

\* C20: AddGamer returns ErrNilGamer for a nil gamer, ErrIDOccupied when the
\* id is registered already, and nil otherwise; the list ListGamers returns
\* starts empty and grows by one with each AddGamer that returns nil and not
\* at all with one that returns an error, so that after any sequence of
\* AddGamer calls it has as many entries as calls returned nil.
C20_AddGamer ==
    /\ Cardinality(listGamers(gamers)) = 0
    /\ [](~poolClosed =>
            \A g \in PoolGamers :
               AddGamerErr(gamers, g) =
                  IF g = NilGamer THEN "NilGamer"
                  ELSE IF g.ID \in { c.ID : c \in listGamers(gamers) } THEN "IDOccupied"
                  ELSE "ok")
    /\ [](~poolClosed =>
            \A g \in PoolGamers :
               Cardinality(listGamers(AddGamerMap(gamers, g))) =
                  Cardinality(listGamers(gamers))
                  + (IF AddGamerErr(gamers, g) = "ok" THEN 1 ELSE 0))

C20_Witness ==
    /\ ~poolClosed
    /\ Cardinality(listGamers(gamers)) = 3
    /\ gamers[3].Name = "Sam"
    /\ \E g \in PoolGamers : AddGamerErr(gamers, g) = "IDOccupied" /\ g.Name = "Joe"

\* C21: for a gamer g whose id is not registered, AddGamer(g) returns nil;
\* GetGamer(g.ID) called next returns a gamer equal to g; RmGamer(g.ID) called
\* next returns a gamer equal to g; GetGamer(g.ID) called next fails with
\* ErrIDNotFound.
C21_AddGetRmGet ==
    ~poolClosed =>
       \A g \in PoolGamers \ {NilGamer} :
          g.ID \notin DOMAIN gamers =>
             LET added == AddGamerMap(gamers, g)
                 removed == rmGamer(added, g.ID)
             IN  /\ AddGamerErr(gamers, g) = "ok"
                 /\ getGamerErr(added, g.ID) = "ok"
                 /\ getGamerRez(added, g.ID) = g
                 /\ rmGamerErr(added, g.ID) = "ok"
                 /\ rmGamerRez(added, g.ID) = g
                 /\ getGamerErr(removed, g.ID) = "IDNotFound"

\* two gamers are registered, one of them in a session, and a gamer with a
\* third id that holds a session can be added
C21_Witness ==
    /\ ~poolClosed
    /\ Cardinality(DOMAIN gamers) = 2
    /\ \E id \in DOMAIN gamers : gamers[id].inGame # NoGame
    /\ \E g \in PoolGamers \ {NilGamer} :
          g.ID \notin DOMAIN gamers /\ g.inGame # NoGame /\ g.Name = "Sam"

\* C22: RmGamer of an id that is not registered fails with ErrIDNotFound,
\* returns no gamer and leaves the registered gamers as they are; RmGamer of
\* a registered id returns nil, removes that gamer and no other, and the list
\* ListGamers returns gets shorter by one.
C22_RmGamer ==
    ~poolClosed =>
       \A id \in IDs :
          IF id \notin DOMAIN gamers
          THEN /\ rmGamerErr(gamers, id) = "IDNotFound"
               /\ rmGamer(gamers, id) = gamers
               /\ listGamers(rmGamer(gamers, id)) = listGamers(gamers)
          ELSE /\ rmGamerErr(gamers, id) = "ok"
               /\ listGamers(rmGamer(gamers, id)) =
                     listGamers(gamers) \ {rmGamerRez(gamers, id)}
               /\ Cardinality(listGamers(rmGamer(gamers, id))) =
                     Cardinality(listGamers(gamers)) - 1
               /\ \A o \in DOMAIN gamers \ {id} :
                     /\ o \in DOMAIN rmGamer(gamers, id)
                     /\ rmGamer(gamers, id)[o] = gamers[o]

\* gamers have been added and one has been removed again: a registered and an
\* unregistered id are at hand
C22_Witness ==
    /\ ~poolClosed
    /\ DOMAIN gamers = {1, 3}
    /\ gamers[3].inGame # NoGame
    /\ rmGamerErr(gamers, 2) = "IDNotFound"
    /\ rmGamerErr(gamers, 3) = "ok"

\* C23: the Gamer passed to AddGamer and every Gamer that GetGamer, RmGamer
\* or ListGamers hands out is another object than the one the pool stores:
\* a write of the name, the id or the game into an object a caller holds
\* changes the result of no GetGamer and of no ListGamers called later.
C23_CopiesAreDecoupled ==
    /\ \A id \in DOMAIN gamers :
          /\ gamers[id].addr \notin callerHeld(gamers)
          /\ gamers[id].ID = id
    /\ \A a \in callerHeld(gamers), m \in Mutations :
          /\ listGamers(mutate(gamers, a, m)) = listGamers(gamers)
          /\ \A id \in IDs :
                /\ getGamerErr(mutate(gamers, a, m), id) = getGamerErr(gamers, id)
                /\ id \in DOMAIN gamers =>
                      getGamerRez(mutate(gamers, a, m), id) = getGamerRez(gamers, id)

\* three gamers are registered, one in a session, and callers hold the
\* objects they added and the copies the pool hands out
C23_Witness ==
    /\ ~poolClosed
    /\ DOMAIN gamers = {1, 2, 3}
    /\ gamers[2].inGame # NoGame
    /\ gamers[1].inGame = NoGame
    /\ {callerAddr, getGamerAddr(gamers, 2), listGamersAddr(gamers, 2)} \subseteq callerHeld(gamers)

\* the gamers ListGamers shows in a game
inGameCount(gm) == Cardinality({ g \in listGamers(gm) : g.inGame # NoGame })

\* C24: JoinGame of an id that is not registered fails with ErrIDNotFound,
\* JoinGame of a gamer that is in a game fails with ErrGamerOccupied, and in
\* both cases no session is made or joined and the game of every gamer stays
\* as it is; a JoinGame that returns nil raises the number of gamers in a
\* game by exactly one.
C24_JoinGameErrors ==
    ~poolClosed =>
       \A id \in IDs, rnd \in {Black, White} :
        \A o \in joinAcceptors(gamers, games, id) \cup {id} :
          (o = id <=> joinAcceptors(gamers, games, id) = {}) =>
             LET err == joinGameErr(gamers, games, id, cmdSize)
                 after == joinGame(gamers, games, id, cmdSize, rnd, o)
             IN  /\ id \notin DOMAIN gamers =>
                       err = "IDNotFound" /\ after.gamers = gamers /\ after.games = games
                 /\ (id \in DOMAIN gamers /\ gamers[id].inGame # NoGame) =>
                       err = "GamerOccupied" /\ after.gamers = gamers /\ after.games = games
                 /\ err = "ok" =>
                       /\ inGameCount(after.gamers) = inGameCount(gamers) + 1
                       /\ \A i \in DOMAIN gamers \ {id} : after.gamers[i] = gamers[i]

\* one gamer is in a session with a free place, another registered gamer is
\* in no game and can join it, and a third id is not registered
C24_Witness ==
    /\ ~poolClosed
    /\ \E id \in IDs : joinGameErr(gamers, games, id, cmdSize) = "ok"
    /\ \E id \in IDs : joinGameErr(gamers, games, id, cmdSize) = "GamerOccupied"
    /\ \E id \in IDs : joinGameErr(gamers, games, id, cmdSize) = "IDNotFound"

\* the distinct games the gamers ListGamers shows are in
gamesCount(gm) == Cardinality({ g.inGame : g \in listGamers(gm) } \ {NoGame})

\* the sessions hold the gamers the pool has put into them and no others,
\* and no gamer has left one
OnlyPoolJoined(gm, gms) ==
    \A h \in DOMAIN gms :
       /\ ~gms[h].closed
       /\ ~gms[h].gameOver
       /\ DOMAIN gms[h].gamerStates = { id \in DOMAIN gm : gm[id].inGame = h }

\* C25: when registered gamers that are in no game call JoinGame one after
\* another and nobody releases, every call returns nil, no session has more
\* than two gamers, and the gamers are in ceil(n/2) distinct games, n the
\* number of gamers that have joined.
C25_JoinGamePairsUp ==
    (~poolClosed /\ OnlyPoolJoined(gamers, games)) =>
       \A id \in DOMAIN gamers, rnd \in {Black, White} :
        \A o \in joinAcceptors(gamers, games, id) \cup {id} :
          (gamers[id].inGame = NoGame
             /\ (o = id <=> joinAcceptors(gamers, games, id) = {})) =>
             LET after == joinGame(gamers, games, id, cmdSize, rnd, o)
             IN  /\ joinGameErr(gamers, games, id, cmdSize) = "ok"
                 /\ \A h \in DOMAIN after.games :
                       NumGamers(after.games[h].gamerStates) <= 2
                 /\ 2 * gamesCount(after.gamers) \in
                       {inGameCount(after.gamers), inGameCount(after.gamers) + 1}

\* C26: after ReleaseGame(id) has returned nil the gamer is in no game and id
\* is not among the gamers of the session it was in, both when the session's
\* Leave succeeded and when it failed (the session was destroyed already, or
\* did not know the id): the error of Leave is dropped. ReleaseGame of a
\* registered gamer that is in no game returns nil and changes nothing;
\* ReleaseGame of an id that is not registered fails with ErrIDNotFound.
C26_ReleaseGame ==
    ~poolClosed =>
       \A id \in IDs :
          LET err == releaseGameErr(gamers, id)
              after == releaseGame(gamers, games, id)
          IN  IF id \notin DOMAIN gamers
              THEN err = "IDNotFound" /\ after.gamers = gamers /\ after.games = games
              ELSE IF gamers[id].inGame = NoGame
              THEN err = "ok" /\ after.gamers = gamers /\ after.games = games
              ELSE /\ err = "ok"
                   /\ after.gamers[id].inGame = NoGame
                   /\ id \notin DOMAIN after.games[gamers[id].inGame].gamerStates
                   /\ \A o \in DOMAIN gamers \ {id} : after.gamers[o] = gamers[o]

\* one registered gamer is in a session that has it as a gamer, another holds
\* the same session without being one of its gamers, so that its Leave
\* fails, and a third id is not registered
C26_Witness ==
    /\ ~poolClosed
    /\ \E id \in DOMAIN gamers :
          /\ gamers[id].inGame # NoGame
          /\ id \in DOMAIN games[gamers[id].inGame].gamerStates
          /\ gameLeave(games[gamers[id].inGame], id).err = "ok"
    /\ \E id \in DOMAIN gamers :
          /\ gamers[id].inGame # NoGame
          /\ gameLeave(games[gamers[id].inGame], id).err = "UnknownID"
    /\ \E id \in IDs : releaseGameErr(gamers, id) = "IDNotFound"

\* C27: when JoinGame finds no session that accepts the gamer and the new
\* session cannot be made (NewGame refuses the size) or refuses the gamer,
\* JoinGame fails with ErrGamerGameStart, the gamer stays in no game, and no
\* live session is left behind: a session that was made has been ended.
C27_StartOwnGameFails ==
    ~poolClosed =>
       \A id \in DOMAIN gamers, size \in NewGameSizes \cup {cmdSize}, rnd \in {Black, White} :
          (gamers[id].inGame = NoGame
             /\ joinAcceptors(gamers, games, id) = {}
             /\ (NewErr(size) # "ok"
                   \/ gameJoin(newGame(size), gamerCopy(gamers, id), rnd).err # "ok")) =>
             LET after == joinGame(gamers, games, id, size, rnd, id)
             IN  /\ joinGameErr(gamers, games, id, size) = "GamerGameStart"
                 /\ after.gamers = gamers
                 /\ \A h \in DOMAIN games : after.games[h] = games[h]
                 /\ \A h \in DOMAIN after.games \ DOMAIN games : after.games[h].closed

\* a registered gamer in no game calls JoinGame while the only session held
\* by another gamer is full, and the size the command carries is refused
C27_Witness ==
    /\ ~poolClosed
    /\ \E id \in DOMAIN gamers :
          /\ gamers[id].inGame = NoGame
          /\ joinCandidates(gamers, id) # {}
          /\ joinAcceptors(gamers, games, id) = {}
          /\ NewErr(cmdSize) # "ok"
          /\ joinGameErr(gamers, games, id, cmdSize) = "GamerGameStart"

\* C28: while JoinGame looks for a session, the refusal of a candidate
\* session (ErrNoPlace, ErrGameOver, ErrResourceNotAvailable) is never the
\* result of JoinGame: the search goes on with the next candidate, the first
\* session that accepts becomes the game of the gamer, and when every
\* candidate refuses a new session is made for the gamer.
C28_RejectionsAreSkipped ==
    ~poolClosed =>
       \A id \in DOMAIN gamers, rnd \in {Black, White} :
        \A o \in joinAcceptors(gamers, games, id) \cup {id} :
          (gamers[id].inGame = NoGame
             /\ joinCandidates(gamers, id) # {}
             /\ (o = id <=> joinAcceptors(gamers, games, id) = {})) =>
             LET err == joinGameErr(gamers, games, id, cmdSize)
                 after == joinGame(gamers, games, id, cmdSize, rnd, o)
             IN  /\ err \notin {"NoPlace", "GameOver", "ResourceNotAvailable"}
                 /\ o # id =>
                       /\ err = "ok"
                       /\ after.gamers[id].inGame = gamers[o].inGame
                       /\ id \in DOMAIN after.games[gamers[o].inGame].gamerStates
                 /\ o = id =>
                       /\ err = "ok"
                       /\ after.gamers[id].inGame \in DOMAIN after.games \ DOMAIN games
                       /\ id \in DOMAIN after.games[after.gamers[id].inGame].gamerStates

\* C29: Release closes the channel of the pool and stops its worker, and it
\* changes no session: every session keeps its gamers, its turn index and
\* its game-over flag, and answers the holders of its handle as before.
C29_ReleaseKeepsSessions ==
    [][Release =>
         /\ poolClosed'
         /\ sendPanic(poolClosed') = "send on closed channel"
         /\ DOMAIN games' = DOMAIN games
         /\ \A h \in DOMAIN games :
               /\ games'[h].gamerStates = games[h].gamerStates
               /\ games'[h].currentTurn = games[h].currentTurn
               /\ games'[h].gameOver = games[h].gameOver
               /\ games'[h].closed = games[h].closed
               /\ \A g \in Gamers :
                     gameJoin(games'[h], g, Black).err = gameJoin(games[h], g, Black).err
               /\ \A id \in IDs :
                     gameLeave(games'[h], id).err = gameLeave(games[h], id).err
               /\ \A id \in IDs, td \in PoolTurnDatas :
                     gameMakeTurn(games'[h], id, td).err = gameMakeTurn(games[h], id, td).err
    ]_vars

\* the pool has been released while a gamer of it held a session with two
\* gamers and a move made: the session is live and takes the next move
C29_Witness ==
    /\ poolClosed
    /\ \E h \in DOMAIN games :
          /\ ~games[h].closed
          /\ NumGamers(games[h].gamerStates) = 2
          /\ games[h].currentTurn = 1
          /\ \E id \in IDs, td \in PoolTurnDatas :
                gameMakeTurn(games[h], id, td).err = "WrongTurn"

\* C30: a method of the pool (AddGamer, RmGamer, GetGamer, ListGamers,
\* JoinGame, ReleaseGame, or a second Release) called after Release has
\* closed the pool channel does not crash its caller: the panic of the send
\* on the closed channel is recovered and the method returns
\* ErrResourceNotAvailable, as the methods of Game do.
C30_ClosedPoolIsRecovered ==
    poolClosed =>
       \A act \in PoolActs :
          poolMethodEnd(act, poolClosed) = recoverAsErrValue(sendPanic(poolClosed))

\* C31: while a successful makeTurn is handled the worker reports on the
\* stored waitTurn channels only after currentTurn has been incremented: at
\* the time a waitTurn caller is reported success currentTurn holds the value
\* after the move.
C31_ReportAfterIncrement ==
    [][\A id \in IDs, td \in TurnDatas :
         (/\ currentTurn' = currentTurn + 1
          /\ makeTurnErr(gamerStates, id, td, gameOver, currentTurn, master) = "ok"
          /\ MakeTurn(id, td)
          /\ \E p \in DOMAIN gamerStates : ReportedTo(Caller("wTurn", p), "nil"))
         => turnAtReport(currentTurn, "ok") = currentTurn']_vars

\* C31 as the worker does it: while a successful makeTurn is handled the
\* worker reports on the stored waitTurn channels before currentTurn is
\* incremented, choosing them by the colour that moves at currentTurn + 1,
\* and increments currentTurn in the same iteration of its loop, before it
\* takes another command: a caller reported success has the colour that
\* moves at the new currentTurn and not the one that moved.
C31_ReportBeforeIncrement ==
    [][\A id \in IDs, td \in TurnDatas :
         (/\ currentTurn' = currentTurn + 1
          /\ makeTurnErr(gamerStates, id, td, gameOver, currentTurn, master) = "ok"
          /\ MakeTurn(id, td))
         => /\ turnAtReport(currentTurn, "ok") = currentTurn
            /\ turnAtReport(currentTurn, "ok") + 1 = currentTurn'
            /\ \A p \in DOMAIN gamerStates :
                  ReportedTo(Caller("wTurn", p), "nil") =>
                     /\ ParityMatches(currentTurn', gamerStates[p].Colour)
                     /\ ~ParityMatches(turnAtReport(currentTurn, "ok"), gamerStates[p].Colour)
                     /\ p # id]_vars

\* two moves have been made and the second has released the waitTurn of the
\* gamer that plays Black
C31_Witness ==
    /\ ~closed
    /\ currentTurn = 2
    /\ \E p \in DOMAIN gamerStates :
          /\ gamerStates[p].Colour = Black
          /\ BagIn([act |-> "wTurn", id |-> p, val |-> "nil"], signalled)

\* the values the worker reports on a stored channel with
ReportVals == {"nil", "OtherGamerLeft", "GameDestroyed"}

\* C32: the worker never blocks on the reply channel of a WaitBegin or
\* WaitTurn, whether or not the caller has returned ErrCancellation: one
\* report sends no more values than the channel holds and closes it once,
\* the handler that answers at once sends at most one value and closes once,
\* and a channel the worker has reported on is no longer stored, so that a
\* caller is reported to at most once and with one value.
C32_WaitChannelsNeverBlock ==
    /\ [](\A ch \in {"nil", "chan"}, val \in ReportVals :
            /\ reportOnChan(ch, val).sends <= waitChanCap
            /\ reportOnChan(ch, val).closes <= 1
            /\ reportOnChan(ch, val).ch = "nil"
            /\ ch = "nil" => /\ reportOnChan(ch, val).sends = 0
                             /\ reportOnChan(ch, val).closes = 0)
    /\ [](\A act \in {"wBegin", "wTurn"}, out \in {"ok", "UnknownID", "GameOver"} :
            rezOps(act, out) \in {<<"close">>, <<"send", "close">>})
    /\ [][\A c \in waiting, val \in ReportVals :
            LET s == [act |-> c.act, id |-> c.id, val |-> val]
            IN  /\ CopiesIn(s, signalled') <= CopiesIn(s, signalled) + 1
                /\ ReportedTo(c, val) =>
                      /\ c \notin waiting'
                      /\ \A v \in ReportVals \ {val} : ~ReportedTo(c, v)
                      /\ c.id \in DOMAIN gamerStates' =>
                            IF c.act = "wBegin"
                            THEN gamerStates'[c.id].beMSGChan = "nil"
                            ELSE gamerStates'[c.id].turnMSGChan = "nil"]_vars

\* the reply channel of a waiting caller holds the error the worker has sent
\* and nobody has taken, while that gamer waits again on a channel of a
\* later call
C32_Witness ==
    \E s \in BagToSet(signalled) :
        /\ s.val # "nil"
        /\ Caller(s.act, s.id) \in waiting

\* the field f and f with the cup of one colour emptied by earlier moves
CupsOf(f) ==
    {f} \cup { [f EXCEPT !.chipsNumber[c] = 0] : c \in {Black, White} }

\* C33: a Move of the field that returns an error (ErrColour, ErrPosition,
\* ErrOccupied, ErrGameOver for an empty cup) leaves the chips in the cup of
\* both colours and every cell as they were; a Move that succeeds takes
\* exactly one chip from the mover's cup, sets exactly the addressed cell to
\* the mover's colour and changes nothing else.
C33_MoveFrame ==
    \A f \in CupsOf(master), colour \in {NoColour, Black, White}, td \in TurnDatas :
        LET g == Move(f, colour, td)
        IN  IF MoveErr(f, colour, td) # "ok"
            THEN /\ MoveErr(f, colour, td) \in {"Colour", "Position", "Occupied", "GameOver"}
                 /\ g = f
            ELSE /\ g.chipsNumber[colour] = f.chipsNumber[colour] - 1
                 /\ \A c \in {Black, White} \ {colour} :
                       g.chipsNumber[c] = f.chipsNumber[c]
                 /\ g.field[td.Y][td.X] = colour
                 /\ f.field[td.Y][td.X] = NoColour
                 /\ \A y \in 1 .. f.size, x \in 1 .. f.size :
                       (y # td.Y \/ x # td.X) => g.field[y][x] = f.field[y][x]
                 /\ g.size = f.size

\* a move has been accepted and the same position is offered again, which
\* the field refuses as occupied; an emptied cup is refused as well
C33_Witness ==
    /\ ~closed
    /\ \E td \in TurnDatas, colour \in {Black, White} :
          /\ MoveErr(master, colour, td) = "Occupied"
          /\ master.field[td.Y][td.X] = colour
          /\ master.chipsNumber[colour] = New(master.size).chipsNumber[colour] - 1
          /\ MoveErr([master EXCEPT !.chipsNumber[colour] = 0], colour, td) = "GameOver"

\* C34: an AddGamer that fails with ErrIDOccupied leaves the stored gamer of
\* that id as it was: a GetGamer of the id that follows returns the same
\* name and the same game as before the call.
C34_OccupiedKeepsRecord ==
    \A g \in PoolGamers :
        AddGamerErr(gamers, g) = "IDOccupied" =>
            /\ getGamerErr(AddGamerMap(gamers, g), g.ID) = "ok"
            /\ getGamerRez(AddGamerMap(gamers, g), g.ID) = getGamerRez(gamers, g.ID)

\* the state of the session's worker: the gamers with their colours and
\* stored channels, currentTurn, gameOver and the field
sessionState == <<gamerStates, currentTurn, gameOver, master>>

\* C35: a call the worker answers with an error (join: ErrNoPlace,
\* ErrGameOver; leave: ErrUnknownID; makeTurn: ErrUnknownID, ErrGameOver,
\* ErrNotYourTurn, ErrWrongTurn; the waits and the reads: ErrUnknownID,
\* ErrGameOver) leaves the gamers, their colours and stored channels,
\* currentTurn and gameOver as they were.
C35_ErrorsChangeNothing ==
    [][/\ \A g \in Gamers :
            (joinErr(gamerStates, gameOver) # "ok" /\ Join(g))
            => sessionState' = sessionState
       /\ \A id \in IDs :
            (leaveGameErr(gamerStates, id) # "ok" /\ Leave(id))
            => sessionState' = sessionState
       /\ \A id \in IDs, td \in TurnDatas :
            (/\ makeTurnErr(gamerStates, id, td, gameOver, currentTurn, master) # "ok"
             /\ MakeTurn(id, td))
            => sessionState' = sessionState
       /\ \A id \in IDs :
            (/\ waitBegin(gamerStates, waiting, id, gameOver).rez \notin {"ok", "wait"}
             /\ WaitBegin(id))
            => sessionState' = sessionState
       /\ \A id \in IDs :
            (/\ waitTurn(gamerStates, waiting, id, gameOver, currentTurn).rez
                   \notin {"ok", "wait"}
             /\ WaitTurn(id))
            => sessionState' = sessionState
       /\ \A id \in IDs :
            (GamerState(id) \/ FieldSize(id) \/ GameState(id)
               \/ IsGameBegun(id) \/ IsMyTurn(id))
            => sessionState' = sessionState]_vars

\* C36: from its join until it leaves, the colour of a gamer never changes
\* and its stored wait channels are never dropped without a report, whatever
\* is called on the session, a second join with the id of a present gamer
\* included.
C36_ColourAndChannelsKept ==
    [][/\ \A p \in DOMAIN gamerStates \cap DOMAIN gamerStates' :
            gamerStates'[p].Colour = gamerStates[p].Colour
       /\ \A c \in waiting : CopiesIn(c, blocked') <= CopiesIn(c, blocked)]_vars

\* C37: no move is accepted before the game has begun: a makeTurn that
\* returns nil, advances currentTurn and places a chip happens only while the
\* session has two gamers.
C37_MoveNeedsTwoGamers ==
    [][\A id \in IDs, td \in TurnDatas :
         (/\ currentTurn' = currentTurn + 1
          /\ makeTurnErr(gamerStates, id, td, gameOver, currentTurn, master) = "ok"
          /\ MakeTurn(id, td))
         => NumGamers(gamerStates) = 2]_vars

\* C37 as the worker does it: a makeTurn that returns nil, advances
\* currentTurn and places a chip happens only while the mover is a gamer of
\* the session, the session is not over and currentTurn is a turn of the
\* mover's colour; the session has one or two gamers then, so a gamer that
\* plays Black alone moves before the game has begun.
C37_MoveNeedsTheMover ==
    [][\A id \in IDs, td \in TurnDatas :
         (/\ currentTurn' = currentTurn + 1
          /\ makeTurnErr(gamerStates, id, td, gameOver, currentTurn, master) = "ok"
          /\ MakeTurn(id, td))
         => /\ id \in DOMAIN gamerStates
            /\ NumGamers(gamerStates) \in {1, 2}
            /\ ~gameOver
            /\ ParityMatches(currentTurn, gamerStates[id].Colour)
            /\ master'.field[td.Y][td.X] = gamerStates[id].Colour
            /\ master.field[td.Y][td.X] = NoColour]_vars

\* a gamer that plays Black alone in the session has placed the first chip
C37_Witness ==
    /\ ~closed
    /\ ~gameOver
    /\ currentTurn = 1
    /\ NumGamers(gamerStates) = 1
    /\ \A p \in DOMAIN gamerStates : gamerStates[p].Colour = Black
    /\ \E td \in TurnDatas :
          /\ MoveErr(master, Black, td) = "Occupied"
          /\ master.field[td.Y][td.X] = Black

\* C38: the Game channel is closed at most once, whatever End, Leave and
\* the other calls do in whatever order: the worker never runs a second
\* close, not in the iteration that handles endCMD and then makes the check
\* for gameOver with no gamer either, the channel is closed by End or by a
\* Leave only, and after the close the worker takes no command.
C38_ClosedAtMostOnce ==
    /\ [](~panicked)
    /\ [](~closed => /\ ~closeCheck(gameOver, gamerStates)
                     /\ closesOf("end", gameOver, gamerStates) = 1
                     /\ \A act \in Acts \ {"end", "join", "leave"} :
                           closesOf(act, gameOver, gamerStates) = 0
                     /\ \A id \in IDs :
                           closesOf("leave", leaveGameRet(gamerStates, id),
                                    leaveGame(gamerStates, waiting, id).gs) <= 1
                     /\ \A g \in Gamers, rnd \in {Black, White} :
                           closesOf("join", gameOver,
                                    join(gamerStates, g, gameOver, rnd)) = 0)
    /\ [][(~closed /\ closed') => (End \/ \E id \in IDs : Leave(id))]_vars
    /\ [][closed => /\ closed'
                    /\ sessionState' = sessionState
                    /\ waiting' \subseteq waiting]_vars

\* End has closed the channel of a session whose gamer was waiting: the
\* worker has left its loop after one close and reported ErrGameDestroyed
C38_Witness ==
    /\ closed
    /\ ~panicked
    /\ \E s \in BagToSet(signalled) : s.val = "GameDestroyed"

\* every gamer of every live session is a gamer of the pool whose game is
\* that session
poolTracks(gm, gms) ==
    \A h \in DOMAIN gms :
        ~gms[h].closed =>
            \A p \in DOMAIN gms[h].gamerStates :
                p \in DOMAIN gm /\ gm[p].inGame = h

C40_CallsReturn ==
    \A c \in Callers :
        (calls[c].pos = "send" /\ calls[c].live) ~> (calls[c].pos = "idle")

====
